---- MODULE Spec2Model ----
(***************************************************************************)
(* Track map construction (TrackMap) and the start/finish synchronisation  *)
(* solver with its worker pool (AdvancedSyncSolver, SolverSubprocess,      *)
(* StartFinishCondition) of src/experimental.py, with the older            *)
(* TrackMap._sort_points of src/testing.py as a second variant.            *)
(*                                                                         *)
(* Two state machines share the module.  SpecTrack runs generate_track on  *)
(* every sequence of distinct points of a small grid.  Spec runs solve():  *)
(* one coordinator and N worker processes that talk through the three FIFO *)
(* queues tasks, idling and resume.  SpecGather runs                       *)
(* s3_to_start_finish_v1 of src/testing.py: a coordinator, the             *)
(* subprocesses it starts for the chunks of the driver list, and the       *)
(* result queue between them.                                              *)
(***************************************************************************)
EXTENDS Integers, Sequences, FiniteSets, TLC

VARIABLES
    \* ---- TrackMap ----
    variant,               \* "experimental" | "testing": which _sort_points runs
    input_points,          \* history: unsorted_points as __init__ left them
    unsorted_points,       \* TrackMap.unsorted_points
    sorted_points,         \* TrackMap.sorted_points
    excluded_points,       \* TrackMap.excluded_points
    next_point,            \* TrackMap._next_point
    distances,             \* TrackMap.distances (fixed point, 1/Scale units)
    distances_normalized,  \* TrackMap.distances_normalized (reduced fractions)
    track,                 \* TrackMap.track (the DataFrame's four columns)
    tpc,                   \* position inside generate_track
    \* ---- AdvancedSyncSolver ----
    number_of_processes,   \* AdvancedSyncSolver.number_of_processes
    conditions,            \* len(AdvancedSyncSolver.conditions)
    drivers,               \* AdvancedSyncSolver.drivers
    tables,                \* laps and pos of every driver (the shared data)
    x_range, y_range,      \* AdvancedSyncSolver.x_range, y_range
    tasks, idling, resume, \* the three manager queues
    cpc,                   \* position of the coordinator inside solve()
    cnt,                   \* solve: the number of the current sweep step
    test_point,            \* solve: the candidate point of the current step
    todo,                  \* solve: the tasks of this step not yet put
    n_put,                 \* queue_idle_command/resume_all/exit_all/join_all: loop counter
    idle_count,            \* wait_for_idle: idle_count
    merged,                \* wait_for_idle: its local dict results
    results,               \* AdvancedSyncSolver.results
    \* ---- SolverSubprocess, one per worker ----
    wpc,                   \* position of each worker inside run()
    task,                  \* run: the item last taken from the task queue
    wresults,              \* SolverSubprocess.results
    reported,              \* history: reports each worker pushed, per idle round
    \* ---- calls from outside: the position data and one query at a time ----
    raw_pos_data,          \* TrackMap._raw_pos_data: the position table of every driver
    qpc,                   \* the query, or constructor, that ran last
    qargs,                 \* its arguments
    qret,                  \* what it returned or raised
    \* ---- s3_to_start_finish_v1 and its subprocesses (src/testing.py) ----
    tel_drivers,           \* drivers = list(tel.keys())
    chunks_left,           \* the chunks the generator chunks() has not yielded yet
    processes,             \* _processes: the chunk of every started subprocess
    ret_vals,              \* the result queue q (ret_vals in the subprocess)
    result,                \* the dict result of the coordinator
    s3pc,                  \* position of the coordinator inside s3_to_start_finish_v1
    s3i,                   \* the loop counter of the reads and of the joins
    subpc,                 \* position of each subprocess
    subpos,                \* each subprocess: index into drvs, lap number i, offset dt
    subvals                \* each subprocess: its four lists

trackVars == <<variant, input_points, unsorted_points, sorted_points,
               excluded_points, next_point, distances, distances_normalized,
               track, tpc>>

poolVars == <<number_of_processes, conditions, drivers, tables, x_range, y_range,
              tasks, idling, resume, cpc, cnt, test_point, todo, n_put,
              idle_count, merged, results, wpc, task, wresults, reported>>

queryVars == <<raw_pos_data, qpc, qargs, qret>>

gatherVars == <<tel_drivers, chunks_left, processes, ret_vals, result, s3pc, s3i,
                subpc, subpos, subvals>>

vars == <<trackVars, poolVars, queryVars, gatherVars>>

-----------------------------------------------------------------------------
(* Bounds of the model *)

MaxPoints == 4

MaxWorkers == 2

MaxConditions == 2

MaxDrivers == 2

MaxSteps == 3

MaxUnexpected == 1

MaxRows == 2

MaxLaps == 4

\* the longest driver list s3_to_start_finish_v1 is run on
MaxTelDrivers == 7

\* the number of offsets dt tried per lap (400 in range(0, 4000, 10))
MaxOffsets == 3

-----------------------------------------------------------------------------
(* The half of the state a specification does not use *)

\* no TrackMap is being built
TrackUnused ==
    /\ variant = "experimental"
    /\ input_points = <<>>
    /\ unsorted_points = <<>>
    /\ sorted_points = <<>>
    /\ excluded_points = <<>>
    /\ next_point = [x |-> -1, y |-> -1]
    /\ distances = <<>>
    /\ distances_normalized = <<>>
    /\ track = <<>>
    /\ tpc = "unused"

\* no solver exists
SolverUnused ==
    /\ number_of_processes = 0
    /\ conditions = 0
    /\ drivers = <<>>
    /\ tables = <<>>
    /\ x_range = <<0, 0>>
    /\ y_range = <<0, 0>>
    /\ tasks = <<>>
    /\ idling = <<>>
    /\ resume = <<>>
    /\ cpc = "unused"
    /\ cnt = 0
    /\ test_point = [x |-> -1, y |-> -1]
    /\ todo = <<>>
    /\ n_put = 0
    /\ idle_count = 0
    /\ merged = <<>>
    /\ results = <<>>
    /\ wpc = <<>>
    /\ task = <<>>
    /\ wresults = <<>>
    /\ reported = <<>>

\* no position data is held and nothing is queried
QueryUnused ==
    /\ raw_pos_data = <<>>
    /\ qpc = "unused"
    /\ qargs = <<>>
    /\ qret = <<>>

\* s3_to_start_finish_v1 is not called
GatherUnused ==
    /\ tel_drivers = <<>>
    /\ chunks_left = <<>>
    /\ processes = <<>>
    /\ ret_vals = <<>>
    /\ result = <<>>
    /\ s3pc = "unused"
    /\ s3i = 0
    /\ subpc = <<>>
    /\ subpos = <<>>
    /\ subvals = <<>>

-----------------------------------------------------------------------------
(* Generic helpers *)

Abs(i) == IF i < 0 THEN -i ELSE i

Range(s) == {s[i] : i \in 1..Len(s)}

RECURSIVE Gcd(_, _)
Gcd(a, b) == IF b = 0 THEN a ELSE Gcd(b, a % b)

\* the list without its last element, whatever the position asked for
RemoveLast(s, i) == SubSeq(s, 1, Len(s) - 1)

\* list.pop(i) leaves the list without its element at (1-based) position i
RemoveAt(s, i) == SubSeq(s, 1, i - 1) \o SubSeq(s, i + 1, Len(s))

\* min(list)
RECURSIVE SeqMin(_)
SeqMin(s) ==
    IF Len(s) = 1 THEN s[1]
    ELSE LET m == SeqMin(Tail(s)) IN IF s[1] <= m THEN s[1] ELSE m

\* the last position holding v
IndexOfLast(s, v) == CHOOSE i \in 1..Len(s) : s[i] = v /\ \A j \in (i + 1)..Len(s) : s[j] # v

\* list.index(v): the first position holding v
IndexOf(s, v) == CHOOSE i \in 1..Len(s) : s[i] = v /\ \A j \in 1..(i - 1) : s[j] # v

\* the index of the minimum value (min_index)
min_index(s) == IndexOf(s, SeqMin(s))

\* the sequences of n pairwise distinct elements of S
RECURSIVE DistinctSeqsOfLen(_, _)
DistinctSeqsOfLen(S, n) ==
    IF n = 0 THEN {<<>>}
    ELSE UNION {{Append(s, p) : p \in S \ Range(s)} : s \in DistinctSeqsOfLen(S, n - 1)}

-----------------------------------------------------------------------------
(* TrackPoint and the distance metric *)

\* the coordinate values of the grid the input points are drawn from
CoordValues == {0, 1, 200}

TrackPoint(x, y) == [x |-> x, y |-> y]

GridPoints == {TrackPoint(x, y) : x \in CoordValues, y \in CoordValues}

NoPoint == [x |-> -1, y |-> -1]

\* the square of the Euclidean distance, which the name asks for
SquaredEuclidean(self, other) ==
    (other.x - self.x) * (other.x - self.x) + (other.y - self.y) * (other.y - self.y)

\* get_sqr_dist: abs(dx) + abs(dy), not a squared Euclidean distance
get_sqr_dist(self, other) == Abs(other.x - self.x) + Abs(other.y - self.y)

-----------------------------------------------------------------------------
(* Fixed-point arithmetic standing for Python floats *)

\* distances are kept in units of 1/Scale
Scale == 10 ^ 3

\* floor(sqrt(n)) by bisection
RECURSIVE ISqrtBetween(_, _, _)
ISqrtBetween(n, lo, hi) ==
    IF lo >= hi THEN lo
    ELSE LET mid == (lo + hi + 1) \div 2
         IN  IF mid * mid <= n THEN ISqrtBetween(n, mid, hi)
             ELSE ISqrtBetween(n, lo, mid - 1)

\* math.sqrt(n), in units of 1/Scale
sqrt(n) == ISqrtBetween(n * Scale * Scale, 0, 46340)

\* a / b as a fraction in lowest terms (b > 0)
Frac(a, b) == LET g == Gcd(a, b) IN <<a \div g, b \div g>>

-----------------------------------------------------------------------------
(* TrackMap._sort_points and TrackMap._integrate_distance *)

\* the outlier limit of _sort_points
OutlierLimit == 200

Variants == {"experimental", "testing"}

\* TrackMap.__init__ followed by _unsorted_points_from_pos_data: the
\* deduplicated points, nothing sorted yet
TrackInit ==
    /\ variant \in Variants
    /\ \E n \in 0..MaxPoints : unsorted_points \in DistinctSeqsOfLen(GridPoints, n)
    /\ input_points = unsorted_points
    /\ sorted_points = <<>>
    /\ excluded_points = <<>>
    /\ next_point = NoPoint
    /\ distances = <<>>
    /\ distances_normalized = <<>>
    /\ track = <<>>
    /\ tpc = "constructed"
    /\ SolverUnused
    /\ QueryUnused
    /\ GatherUnused

\* self._next_point = self.unsorted_points.pop(0); pop from an empty list
\* raises IndexError
SortPointsPop ==
    /\ tpc = "constructed"
    /\ IF unsorted_points = <<>>
       THEN /\ tpc' = "IndexError"
            /\ UNCHANGED <<next_point, unsorted_points>>
       ELSE /\ next_point' = Head(unsorted_points)
            /\ unsorted_points' = Tail(unsorted_points)
            /\ tpc' = "sorting"
    /\ UNCHANGED <<variant, input_points, sorted_points, excluded_points,
                   distances, distances_normalized, track>>
    /\ UNCHANGED poolVars
    /\ UNCHANGED queryVars
    /\ UNCHANGED gatherVars

\* the outlier test of one loop iteration
IsOutlierDistStrict(min_dst) == min_dst >= OutlierLimit

IsOutlierDist(min_dst) == min_dst > OutlierLimit

\* one iteration of the while loop of _sort_points
SortPointsStep ==
    /\ tpc = "sorting"
    /\ unsorted_points # <<>>
    /\ LET dists == [i \in 1..Len(unsorted_points) |->
                        get_sqr_dist(next_point, unsorted_points[i])]
           min_dst == SeqMin(dists)
           index_min == IndexOf(dists, min_dst)
       IN  /\ IF IsOutlierDist(min_dst)
              THEN /\ excluded_points' = Append(excluded_points, next_point)
                   /\ UNCHANGED sorted_points
              ELSE /\ sorted_points' = Append(sorted_points, next_point)
                   /\ UNCHANGED excluded_points
           /\ next_point' = unsorted_points[index_min]
           /\ unsorted_points' = RemoveAt(unsorted_points, index_min)
    /\ UNCHANGED <<variant, input_points, distances, distances_normalized,
                   track, tpc>>
    /\ UNCHANGED poolVars
    /\ UNCHANGED queryVars
    /\ UNCHANGED gatherVars

\* after the loop: experimental.py appends the last point if it is within the
\* limit of sorted_points[-1] (IndexError when nothing was sorted); testing.py
\* has no such step and returns
SortPointsFinish ==
    /\ tpc = "sorting"
    /\ unsorted_points = <<>>
    /\ IF variant = "testing"
       THEN /\ tpc' = "sorted"
            /\ UNCHANGED sorted_points
       ELSE IF sorted_points = <<>>
       THEN /\ tpc' = "IndexError"
            /\ UNCHANGED sorted_points
       ELSE /\ sorted_points' =
                   IF get_sqr_dist(next_point, sorted_points[Len(sorted_points)])
                          <= OutlierLimit
                   THEN Append(sorted_points, next_point)
                   ELSE sorted_points
            /\ tpc' = "sorted"
    /\ UNCHANGED <<variant, input_points, unsorted_points, excluded_points,
                   next_point, distances, distances_normalized, track>>
    /\ UNCHANGED poolVars
    /\ UNCHANGED queryVars
    /\ UNCHANGED gatherVars

\* the segment lengths themselves, not their running sum
SegmentLengths(pts) ==
    IF Len(pts) <= 1 THEN <<0>>
    ELSE [i \in 1..Len(pts) |->
             IF i = 1 THEN 0 ELSE sqrt(get_sqr_dist(pts[i - 1], pts[i]))]

\* the cumulative distances _integrate_distance appends for the points pts
RECURSIVE CumulativeDistances(_)
CumulativeDistances(pts) ==
    IF Len(pts) <= 1 THEN <<0>>
    ELSE LET before == CumulativeDistances(SubSeq(pts, 1, Len(pts) - 1))
             segment_length == sqrt(get_sqr_dist(pts[Len(pts) - 1], pts[Len(pts)]))
         IN  Append(before, before[Len(before)] + segment_length)

\* _integrate_distance and the rest of generate_track: dist / distances[-1]
\* raises ZeroDivisionError when the last distance is 0, after distances was
\* filled and before anything was normalized
IntegrateDistance ==
    /\ tpc = "sorted"
    /\ LET ds == CumulativeDistances(sorted_points)
           total == ds[Len(ds)]
       IN  /\ distances' = ds
           /\ IF total = 0
              THEN /\ tpc' = "ZeroDivisionError"
                   /\ UNCHANGED <<distances_normalized, track>>
              ELSE /\ distances_normalized' =
                          [i \in 1..Len(ds) |-> Frac(ds[i], total)]
                   /\ track' = [X |-> [i \in 1..Len(sorted_points) |-> sorted_points[i].x],
                                Y |-> [i \in 1..Len(sorted_points) |-> sorted_points[i].y],
                                Distance |-> ds,
                                Normalized |-> distances_normalized']
                   /\ tpc' = "generated"
    /\ UNCHANGED <<variant, input_points, unsorted_points, sorted_points,
                   excluded_points, next_point>>
    /\ UNCHANGED poolVars
    /\ UNCHANGED queryVars
    /\ UNCHANGED gatherVars

TrackNext ==
    \/ SortPointsPop
    \/ SortPointsStep
    \/ SortPointsFinish
    \/ IntegrateDistance

SpecTrack == TrackInit /\ [][TrackNext]_vars

-----------------------------------------------------------------------------
(* Lap and position tables *)

\* a missing value (NaN / NaT) of a table cell
Null == 0 - 1

\* one row of the lap table of a driver
Lap(n, time, last, pit_in, pit_out) ==
    [NumberOfLaps |-> n, Time |-> time, LastLapTime |-> last,
     PitInTime |-> pit_in, PitOutTime |-> pit_out]

\* one row of the position table of a driver; Date counts seconds
Sample(date, x, y) == [Date |-> date, X |-> x, Y |-> y]

\* five laps: the first, a usable one, an in-lap, a usable one during which no
\* position was recorded, and the last
LapsOfFive ==
    <<Lap(1, 10, 10, Null, Null), Lap(2, 30, 20, Null, Null),
      Lap(3, 50, 20, 49, Null), Lap(4, 70, 20, Null, Null),
      Lap(5, 90, 20, Null, Null)>>

\* the tables a driver can have: samples on both sides of every candidate
\* line but the last (for two cars on different lines), one sample only, no
\* sample at all
DriverTables ==
    {[laps |-> LapsOfFive,
      pos |-> <<Sample(5, 100, 50), Sample(15, 110, 60),
                Sample(25, -5, 0), Sample(35, 20, 10)>>],
     [laps |-> LapsOfFive,
      pos |-> <<Sample(5, 130, 50), Sample(15, 140, 80),
                Sample(25, -5, 0), Sample(35, 20, 10)>>],
     [laps |-> LapsOfFive, pos |-> <<Sample(25, -5, 0)>>],
     [laps |-> LapsOfFive, pos |-> <<>>]}

-----------------------------------------------------------------------------
(* TrackMap.interpolate_pos_from_time and StartFinishCondition.for_driver *)

\* a / b rounded to the nearest integer (b > 0)
DivRound(a, b) == (2 * a + b) \div (2 * b)

\* the positions of drv_pos in table order
TableOrder(drv_pos, query_date) == [k \in 1..Len(drv_pos) |-> k]

\* the positions of drv_pos ordered by |Date - query_date|, equal differences
\* in table order
ClosestOrder(drv_pos, query_date) ==
    LET diff(i) == Abs(drv_pos[i].Date - query_date)
        before(i, j) == diff(i) < diff(j) \/ (diff(i) = diff(j) /\ i < j)
    IN  [k \in 1..Len(drv_pos) |->
            CHOOSE i \in 1..Len(drv_pos) :
                Cardinality({j \in 1..Len(drv_pos) : before(j, i)}) = k - 1]

\* what a call comes to: a value, nothing (a skipped lap), or an exception
Returned(x, y) == [kind |-> "ok", exc |-> "", x |-> x, y |-> y]

Skipped == [kind |-> "skip", exc |-> "", x |-> 0, y |-> 0]

Raised(exc) == [kind |-> "raise", exc |-> exc, x |-> 0, y |-> 0]

\* interpolate_pos_from_time: IndexError when the table has fewer than two
\* rows (closest.iloc[1]); else the point on the line through the two rows
\* nearest in time, in units of 1/Scale
interpolate_pos_from_time(drv_pos, query_date) ==
    IF Len(drv_pos) < 2 THEN Raised("IndexError")
    ELSE LET order == ClosestOrder(drv_pos, query_date)
             c0 == drv_pos[order[1]]
             c1 == drv_pos[order[2]]
             delta_t == c1.Date - c0.Date
             delta_x == c1.X - c0.X
             delta_y == c1.Y - c0.Y
             interp_delta_t == query_date - c0.Date
         IN  Returned(c0.X * Scale + (delta_x * interp_delta_t * Scale) \div delta_t,
                      c0.Y * Scale + (delta_y * interp_delta_t * Scale) \div delta_t)

\* first lap, last lap, in-lap, out-lap and laps with no lap number are skipped
LapSkipped(lap, drv_last_lap) ==
    \/ lap.NumberOfLaps = Null
    \/ lap.NumberOfLaps \in {1, drv_last_lap}
    \/ lap.PitInTime # Null
    \/ lap.PitOutTime # Null

\* NumberOfLaps.max() of the driver's laps (NaN when there is none)
MaxLapNumber(laps) ==
    LET ns == {laps[i].NumberOfLaps : i \in 1..Len(laps)} \ {Null}
    IN  IF ns = {} THEN Null ELSE CHOOSE n \in ns : \A m \in ns : m <= n

\* the half width, in seconds, of the window around the approximate lap end
WindowSeconds == 10

\* the rows of drv_pos inside the window that lie on the given side of the
\* candidate line
Partition(drv_pos, approx_time, test_pnt, before) ==
    LET inside(i) == /\ approx_time - WindowSeconds < drv_pos[i].Date
                     /\ drv_pos[i].Date < approx_time + WindowSeconds
        side(i) == (drv_pos[i].X < test_pnt.x) = before
        sel(i) == inside(i) /\ side(i)
    IN  [k \in 1..Cardinality({i \in 1..Len(drv_pos) : sel(i)}) |->
            drv_pos[CHOOSE i \in 1..Len(drv_pos) :
                        sel(i) /\ Cardinality({j \in 1..(i - 1) : sel(j)}) = k - 1]]

\* no guard
PartitionNeverMissing(pos_points, neg_points) == FALSE

\* the guard "make sure that there are points before and after this one"
PartitionMissingBoth(pos_points, neg_points) == pos_points = <<>> /\ neg_points = <<>>

PartitionMissing(pos_points, neg_points) == neg_points = <<>> \/ pos_points = <<>>

\* points[min_index(distances)]: the row of points nearest to test_pnt
NearestRow(points, test_pnt) ==
    points[min_index([i \in 1..Len(points) |->
              get_sqr_dist(test_pnt, TrackPoint(points[i].X, points[i].Y))])]

\* the crossing time measured from the wrong sample
CrossingFromSecond(lap, drv_pos, test_pnt, session_start_date) ==
    LET approx_time == session_start_date + lap.Time
        p_a == NearestRow(Partition(drv_pos, approx_time, test_pnt, TRUE), test_pnt)
        p_b == NearestRow(Partition(drv_pos, approx_time, test_pnt, FALSE), test_pnt)
    IN  [p_a |-> p_a, p_b |-> p_b,
         test_date |-> p_b.Date + DivRound((p_b.Date - p_a.Date) * (test_pnt.x - p_a.X),
                                           p_b.X - p_a.X)]

\* "interpolate the time for test_point from those two points": the two
\* samples selected for a lap with both partitions non-empty, and test_date
Crossing(lap, drv_pos, test_pnt, session_start_date) ==
    LET approx_time == session_start_date + lap.Time
        p_a == NearestRow(Partition(drv_pos, approx_time, test_pnt, TRUE), test_pnt)
        p_b == NearestRow(Partition(drv_pos, approx_time, test_pnt, FALSE), test_pnt)
    IN  [p_a |-> p_a, p_b |-> p_b,
         test_date |-> p_a.Date + DivRound((p_b.Date - p_a.Date) * (test_pnt.x - p_a.X),
                                           p_b.X - p_a.X)]

\* what for_driver does for one lap: nothing, an exception, or the
\* interpolated start point of the lap (min() of an empty list raises
\* ValueError)
ForLap(lap, drv_last_lap, drv_pos, test_pnt, session_start_date) ==
    IF LapSkipped(lap, drv_last_lap) THEN Skipped
    ELSE LET approx_time == session_start_date + lap.Time
             pos_points == Partition(drv_pos, approx_time, test_pnt, TRUE)
             neg_points == Partition(drv_pos, approx_time, test_pnt, FALSE)
         IN  IF PartitionMissing(pos_points, neg_points) THEN Skipped
             ELSE IF pos_points = <<>> \/ neg_points = <<>> THEN Raised("ValueError")
             ELSE LET test_date == Crossing(lap, drv_pos, test_pnt, session_start_date).test_date
                      last_lap_start == test_date - lap.LastLapTime
                  IN  interpolate_pos_from_time(drv_pos, last_lap_start)

\* for_driver: an exception, or the parallel lists res_x and res_y.  Every
\* element carries, beside its value v, the number of the lap it comes from
\* (history).  AppendLap is one pass of "for _, lap in drv_laps.iterrows()"
\* put before the passes that follow it.
AppendLap(r, rest, lap_number) ==
    IF r.kind = "raise" THEN r
    ELSE IF r.kind = "skip" \/ rest.kind = "raise" THEN rest
    ELSE Returned(<<[v |-> r.x, lap |-> lap_number]>> \o rest.x,
                  <<[v |-> r.y, lap |-> lap_number]>> \o rest.y)

RECURSIVE ForLaps(_, _, _, _, _)
ForLaps(laps, drv_last_lap, drv_pos, test_pnt, session_start_date) ==
    IF laps = <<>> THEN Returned(<<>>, <<>>)
    ELSE CHOOSE res \in
             {AppendLap(r, rest, Head(laps).NumberOfLaps) :
                 r \in {ForLap(Head(laps), drv_last_lap, drv_pos, test_pnt, session_start_date)},
                 rest \in {ForLaps(Tail(laps), drv_last_lap, drv_pos, test_pnt, session_start_date)}} :
             TRUE

for_driver(table, test_pnt, session_start_date) ==
    ForLaps(table.laps, MaxLapNumber(table.laps), table.pos, test_pnt, session_start_date)

-----------------------------------------------------------------------------
(* AdvancedSyncSolver.solve and SolverSubprocess.run *)

\* the step of the sweep: range(int(x_range[0]), int(x_range[1]), 15)
SweepStep == 15

\* the number of values range(x_range[0], x_range[1], SweepStep) yields
NumberOfSteps == (x_range[2] - x_range[1] + SweepStep - 1) \div SweepStep

Workers == 1..number_of_processes

\* items of the task queue and of the resume queue.  round is history: the
\* idle round (sweep step, or the final round NumberOfSteps + 1) an item was
\* put in.
IdleItem(round) == [kind |-> "idle", c_index |-> 0, drv |-> 0, point |-> NoPoint, round |-> round]

ExitItem == [kind |-> "exit", c_index |-> 0, drv |-> 0, point |-> NoPoint, round |-> 0]

ResumeItem == [kind |-> "resume", c_index |-> 0, drv |-> 0, point |-> NoPoint, round |-> 0]

TaskItem(c_index, drv, point, round) ==
    [kind |-> "task", c_index |-> c_index, drv |-> drv, point |-> point, round |-> round]

NoItem == [kind |-> "none", c_index |-> 0, drv |-> 0, point |-> NoPoint, round |-> 0]

\* Python dicts are functions; {} is the function with no key
EmptyDict == <<>>

HasKey(d, k) == k \in DOMAIN d

\* d[k] = v
DictSet(d, k, v) == [j \in (DOMAIN d) \cup {k} |-> IF j = k THEN v ELSE d[j]]

\* not a number: the mean of an empty series
NaN == 0 - 2 ^ 30

\* pandas Series.mean() and Series.mad() over values in units of 1/Scale
RECURSIVE SeqSum(_)
SeqSum(s) == IF s = <<>> THEN 0 ELSE Head(s) + SeqSum(Tail(s))

Mean(s) == IF s = <<>> THEN NaN ELSE SeqSum(s) \div Len(s)

\* the mean of the absolute values
MeanAbs(s) == IF s = <<>> THEN NaN ELSE Mean([i \in 1..Len(s) |-> Abs(s[i])])

Mad(s) == IF s = <<>> THEN NaN ELSE Mean([i \in 1..Len(s) |-> Abs(s[i] - Mean(s))])

Values(list) == [i \in 1..Len(list) |-> list[i].v]

\* the state solve() starts from: the solver constructed, setup() done,
\* conditions added
SolverInit ==
    /\ number_of_processes \in 1..MaxWorkers
    /\ conditions \in 0..MaxConditions
    /\ \E nd \in 0..MaxDrivers :
          /\ drivers = [i \in 1..nd |-> i]
          /\ tables \in [1..nd -> DriverTables]
    /\ \E steps \in 0..MaxSteps : x_range = <<0, SweepStep * steps>>
    /\ y_range = <<0, x_range[2]>>
    /\ tasks = <<>>
    /\ idling = <<>>
    /\ resume = <<>>
    /\ cpc = "start"
    /\ cnt = 0
    /\ test_point = NoPoint
    /\ todo = <<>>
    /\ n_put = 0
    /\ idle_count = 0
    /\ merged = EmptyDict
    /\ results = <<>>
    /\ wpc = [w \in Workers |-> "not_started"]
    /\ task = [w \in Workers |-> NoItem]
    /\ wresults = [w \in Workers |-> EmptyDict]
    /\ reported = [w \in Workers |-> [r \in 1..(NumberOfSteps + 1) |-> 0]]

\* ---- the coordinator ----

\* solve up to the sweep loop: the queues are created and the processes started
StartProcesses ==
    /\ cpc = "start"
    /\ wpc' = [w \in Workers |-> "get_task"]
    /\ results' = [mean_x |-> <<>>, mean_y |-> <<>>, mad_x |-> <<>>, mad_y |-> <<>>,
                   tx |-> <<>>, ty |-> <<>>]
    /\ cnt' = 0
    /\ cpc' = "for_test_x"
    /\ UNCHANGED <<number_of_processes, conditions, drivers, tables, x_range, y_range,
                   tasks, idling, resume, test_point, todo, n_put, idle_count,
                   merged, task, wresults, reported>>
    /\ UNCHANGED trackVars
    /\ UNCHANGED queryVars
    /\ UNCHANGED gatherVars

\* the (c_index, driver, test_point) tasks of one sweep step, in the order of
\* "for condition in self.conditions: for driver in self.drivers"
StepTasks(point, round) ==
    [k \in 1..(conditions * Len(drivers)) |->
        TaskItem((k - 1) \div Len(drivers), drivers[((k - 1) % Len(drivers)) + 1],
                 point, round)]

\* the candidate point of sweep step number step (1, 2, ...): test_x from the
\* range, test_y interpolated along the coarse line
CandidatePoint(step) ==
    LET test_x == x_range[1] + SweepStep * (step - 1)
        test_y == y_range[1] + ((y_range[2] - y_range[1]) * (test_x - x_range[1]))
                                   \div (x_range[2] - x_range[1])
    IN  TrackPoint(test_x, test_y)

\* the head of "for test_x in range(...)": the next candidate point, or the
\* end of the sweep
ForTestX ==
    /\ cpc = "for_test_x"
    /\ IF cnt < NumberOfSteps
       THEN /\ cnt' = cnt + 1
            /\ test_point' = CandidatePoint(cnt + 1)
            /\ todo' = StepTasks(CandidatePoint(cnt + 1), cnt + 1)
            /\ cpc' = "put_tasks"
       ELSE /\ cpc' = "final_idle"
            /\ UNCHANGED <<cnt, test_point, todo>>
    /\ n_put' = 0
    /\ UNCHANGED <<number_of_processes, conditions, drivers, tables, x_range, y_range,
                   tasks, idling, resume, idle_count, merged, results,
                   wpc, task, wresults, reported>>
    /\ UNCHANGED trackVars
    /\ UNCHANGED queryVars
    /\ UNCHANGED gatherVars

\* self.tasks.put((c_index, driver, test_point)), one put per step
PutTask ==
    /\ cpc = "put_tasks"
    /\ IF todo # <<>>
       THEN /\ tasks' = Append(tasks, Head(todo))
            /\ todo' = Tail(todo)
            /\ UNCHANGED cpc
       ELSE /\ cpc' = "queue_idle"
            /\ UNCHANGED <<tasks, todo>>
    /\ UNCHANGED <<number_of_processes, conditions, drivers, tables, x_range, y_range,
                   idling, resume, cnt, test_point, n_put, idle_count, merged,
                   results, wpc, task, wresults, reported>>
    /\ UNCHANGED trackVars
    /\ UNCHANGED queryVars
    /\ UNCHANGED gatherVars

\* the idle round being queued: the sweep step, or the round after the sweep
CurrentRound == IF cpc = "final_idle" THEN NumberOfSteps + 1 ELSE cnt

\* queue_idle_command: one put of 'idle' per process
queue_idle_command ==
    /\ cpc \in {"queue_idle", "final_idle"}
    /\ tasks' = Append(tasks, IdleItem(CurrentRound))
    /\ IF n_put + 1 = number_of_processes
       THEN /\ n_put' = 0
            /\ cpc' = IF cpc = "queue_idle" THEN "wait_for_idle" ELSE "exit_all"
       ELSE /\ n_put' = n_put + 1
            /\ UNCHANGED cpc
    /\ idle_count' = 0
    /\ merged' = EmptyDict
    /\ UNCHANGED <<number_of_processes, conditions, drivers, tables, x_range, y_range,
                   idling, resume, cnt, test_point, todo, results,
                   wpc, task, wresults, reported>>
    /\ UNCHANGED trackVars
    /\ UNCHANGED queryVars
    /\ UNCHANGED gatherVars

\* the merge of one report res into the dict results of wait_for_idle
MergeOverwrite(into, res) ==
    [key \in (DOMAIN into) \cup (DOMAIN res) |->
        IF HasKey(res, key) THEN res[key] ELSE into[key]]

MergeReport(into, res) ==
    [key \in (DOMAIN into) \cup (DOMAIN res) |->
        IF HasKey(res, key) /\ HasKey(into, key)
        THEN [x |-> into[key].x \o res[key].x, y |-> into[key].y \o res[key].y]
        ELSE IF HasKey(res, key) THEN res[key] ELSE into[key]]

\* the loop condition of wait_for_idle
AllIdleAtFirstReport(count) == count >= 1

AllIdleOneShort(count) == count >= number_of_processes - 1

AllIdle(count) == count = number_of_processes

\* wait_for_idle: one pass of its loop (a blocking get from the idle queue);
\* it returns after the pass that makes idle_count the number of processes
wait_for_idle ==
    /\ cpc = "wait_for_idle"
    /\ idling # <<>>
    /\ idling' = Tail(idling)
    /\ merged' = MergeReport(merged, Head(idling))
    /\ idle_count' = idle_count + 1
    /\ cpc' = IF AllIdle(idle_count + 1) THEN "process_results" ELSE "wait_for_idle"
    /\ UNCHANGED <<number_of_processes, conditions, drivers, tables, x_range, y_range,
                   tasks, resume, cnt, test_point, todo, n_put, results,
                   wpc, task, wresults, reported>>
    /\ UNCHANGED trackVars
    /\ UNCHANGED queryVars
    /\ UNCHANGED gatherVars

\* "process results": res[0] raises KeyError when no report has key 0;
\* otherwise one entry is appended to each of the six result lists
ProcessResults ==
    /\ cpc = "process_results"
    /\ IF ~HasKey(merged, 0)
       THEN /\ cpc' = "KeyError"
            /\ UNCHANGED results
       ELSE /\ results' =
                   [mean_x |-> Append(results.mean_x, Mean(Values(merged[0].x))),
                    mean_y |-> Append(results.mean_y, Mean(Values(merged[0].y))),
                    mad_x |-> Append(results.mad_x, Mad(Values(merged[0].x))),
                    mad_y |-> Append(results.mad_y, Mad(Values(merged[0].y))),
                    tx |-> Append(results.tx, test_point.x),
                    ty |-> Append(results.ty, test_point.y)]
            /\ cpc' = "resume_all"
    /\ n_put' = 0
    /\ UNCHANGED <<number_of_processes, conditions, drivers, tables, x_range, y_range,
                   tasks, idling, resume, cnt, test_point, todo, idle_count, merged,
                   wpc, task, wresults, reported>>
    /\ UNCHANGED trackVars
    /\ UNCHANGED queryVars
    /\ UNCHANGED gatherVars

\* resume_all: one put of 'resume' per process
resume_all ==
    /\ cpc = "resume_all"
    /\ resume' = Append(resume, ResumeItem)
    /\ IF n_put + 1 = number_of_processes
       THEN /\ n_put' = 0
            /\ cpc' = "for_test_x"
       ELSE /\ n_put' = n_put + 1
            /\ UNCHANGED cpc
    /\ UNCHANGED <<number_of_processes, conditions, drivers, tables, x_range, y_range,
                   tasks, idling, cnt, test_point, todo, idle_count, merged, results,
                   wpc, task, wresults, reported>>
    /\ UNCHANGED trackVars
    /\ UNCHANGED queryVars
    /\ UNCHANGED gatherVars

\* exit_all: one put of 'exit' per process
exit_all ==
    /\ cpc = "exit_all"
    /\ resume' = Append(resume, ExitItem)
    /\ IF n_put + 1 = number_of_processes
       THEN /\ n_put' = 0
            /\ cpc' = "join_all"
       ELSE /\ n_put' = n_put + 1
            /\ UNCHANGED cpc
    /\ UNCHANGED <<number_of_processes, conditions, drivers, tables, x_range, y_range,
                   tasks, idling, cnt, test_point, todo, idle_count, merged, results,
                   wpc, task, wresults, reported>>
    /\ UNCHANGED trackVars
    /\ UNCHANGED queryVars
    /\ UNCHANGED gatherVars

\* a process has ended: run() returned or raised
Terminated(w) == wpc[w] \in {"exited", "aborted"}

\* join_all: process.join() of the next process, which blocks until it ended
join_all ==
    /\ cpc = "join_all"
    /\ Terminated(n_put + 1)
    /\ IF n_put + 1 = number_of_processes
       THEN /\ n_put' = 0
            /\ cpc' = "done"
       ELSE /\ n_put' = n_put + 1
            /\ UNCHANGED cpc
    /\ UNCHANGED <<number_of_processes, conditions, drivers, tables, x_range, y_range,
                   tasks, idling, resume, cnt, test_point, todo, idle_count, merged,
                   results, wpc, task, wresults, reported>>
    /\ UNCHANGED trackVars
    /\ UNCHANGED queryVars
    /\ UNCHANGED gatherVars

\* ---- a worker ----

\* task = self.task_queue.get(), which blocks while the queue is empty
GetTask(w) ==
    /\ wpc[w] = "get_task"
    /\ tasks # <<>>
    /\ tasks' = Tail(tasks)
    /\ task' = [task EXCEPT ![w] = Head(tasks)]
    /\ wpc' = [wpc EXCEPT ![w] = CASE Head(tasks).kind = "idle" -> "idle"
                                   [] Head(tasks).kind = "exit" -> "exited"
                                   [] OTHER -> "process_task"]
    /\ UNCHANGED <<number_of_processes, conditions, drivers, tables, x_range, y_range,
                   idling, resume, cpc, cnt, test_point, todo, n_put, idle_count,
                   merged, results, wresults, reported>>
    /\ UNCHANGED trackVars
    /\ UNCHANGED queryVars
    /\ UNCHANGED gatherVars

\* a worker that reports and goes on without waiting
PutIdleNoWait(w) ==
    /\ wpc[w] = "idle"
    /\ idling' = Append(idling, wresults[w])
    /\ wresults' = [wresults EXCEPT ![w] = EmptyDict]
    /\ reported' = [reported EXCEPT ![w][task[w].round] = @ + 1]
    /\ wpc' = [wpc EXCEPT ![w] = "get_task"]
    /\ UNCHANGED <<number_of_processes, conditions, drivers, tables, x_range, y_range,
                   tasks, resume, cpc, cnt, test_point, todo, n_put, idle_count,
                   merged, results, task>>
    /\ UNCHANGED trackVars
    /\ UNCHANGED queryVars
    /\ UNCHANGED gatherVars

\* task == 'idle': self.idle_queue.put(self.results); self.results = dict()
PutIdle(w) ==
    /\ wpc[w] = "idle"
    /\ idling' = Append(idling, wresults[w])
    /\ wresults' = [wresults EXCEPT ![w] = EmptyDict]
    /\ reported' = [reported EXCEPT ![w][task[w].round] = @ + 1]
    /\ wpc' = [wpc EXCEPT ![w] = "wait_resume"]
    /\ UNCHANGED <<number_of_processes, conditions, drivers, tables, x_range, y_range,
                   tasks, resume, cpc, cnt, test_point, todo, n_put, idle_count,
                   merged, results, task>>
    /\ UNCHANGED trackVars
    /\ UNCHANGED queryVars
    /\ UNCHANGED gatherVars

GetResumeIgnoreUnknown(w) ==
    /\ wpc[w] = "wait_resume"
    /\ resume # <<>>
    /\ resume' = Tail(resume)
    /\ wpc' = [wpc EXCEPT ![w] = IF Head(resume).kind = "exit" THEN "exited" ELSE "get_task"]
    /\ UNCHANGED <<number_of_processes, conditions, drivers, tables, x_range, y_range,
                   tasks, idling, cpc, cnt, test_point, todo, n_put, idle_count,
                   merged, results, task, wresults, reported>>
    /\ UNCHANGED trackVars
    /\ UNCHANGED queryVars
    /\ UNCHANGED gatherVars

\* cmd = self.resume_queue.get(): 'exit' returns, 'resume' continues the loop;
\* anything else falls through to "c_index, drv, point = task" with task ==
\* 'idle', which raises ValueError
GetResume(w) ==
    /\ wpc[w] = "wait_resume"
    /\ resume # <<>>
    /\ resume' = Tail(resume)
    /\ wpc' = [wpc EXCEPT ![w] = CASE Head(resume).kind = "exit" -> "exited"
                                   [] Head(resume).kind = "resume" -> "get_task"
                                   [] OTHER -> "aborted"]
    /\ UNCHANGED <<number_of_processes, conditions, drivers, tables, x_range, y_range,
                   tasks, idling, cpc, cnt, test_point, todo, n_put, idle_count,
                   merged, results, task, wresults, reported>>
    /\ UNCHANGED trackVars
    /\ UNCHANGED queryVars
    /\ UNCHANGED gatherVars

\* add_result that extends the first list only
add_result_first_list(res, index, data) ==
    IF ~HasKey(res, index) THEN DictSet(res, index, data)
    ELSE DictSet(res, index, [x |-> res[index].x \o data.x, y |-> res[index].y])

\* add_result(index, data): the first data of a condition is stored, later
\* data extends its two lists
add_result(res, index, data) ==
    IF ~HasKey(res, index) THEN DictSet(res, index, data)
    ELSE DictSet(res, index, [x |-> res[index].x \o data.x, y |-> res[index].y \o data.y])

\* the elements of a list of for_driver with the history of the task they
\* come from: <<round, condition, driver, lap>>
Tagged(list, t) ==
    [i \in 1..Len(list) |-> [v |-> list[i].v, src |-> <<t.round, t.c_index, t.drv, list[i].lap>>]]

\* for_driver tabulated for the tables of the drivers and the points on the
\* coarse line: the same values, computed once
SweepPoints == {TrackPoint(SweepStep * k, SweepStep * k) : k \in 0..MaxSteps}

ForDriverTabulated ==
    {<<table, point, for_driver(table, point, 0)>> : table \in DriverTables, point \in SweepPoints}

ForDriver(table, point) ==
    IF \E row \in ForDriverTabulated : row[1] = table /\ row[2] = point
    THEN (CHOOSE row \in ForDriverTabulated : row[1] = table /\ row[2] = point)[3]
    ELSE for_driver(table, point, 0)

\* "c_index, drv, point = task" and "self.conditions[c_index].for_driver(drv,
\* point)": the value returned, or the exception raised
Evaluate(t) ==
    IF t.kind # "task" THEN Raised("ValueError")
    ELSE IF t.c_index \notin 0..(conditions - 1) THEN Raised("IndexError")
    ELSE ForDriver(tables[t.drv], t.point)

\* "process the received task": unpack it, evaluate the condition for the
\* driver, add the result; an exception ends the process
ProcessTask(w) ==
    /\ wpc[w] = "process_task"
    /\ \E res \in {Evaluate(task[w])} :
          IF res.kind = "raise"
          THEN /\ wpc' = [wpc EXCEPT ![w] = "aborted"]
               /\ UNCHANGED wresults
          ELSE /\ wresults' = [wresults EXCEPT ![w] =
                      add_result(@, task[w].c_index,
                                 [x |-> Tagged(res.x, task[w]), y |-> Tagged(res.y, task[w])])]
               /\ wpc' = [wpc EXCEPT ![w] = "get_task"]
    /\ UNCHANGED <<number_of_processes, conditions, drivers, tables, x_range, y_range,
                   tasks, idling, resume, cpc, cnt, test_point, todo, n_put,
                   idle_count, merged, results, task, reported>>
    /\ UNCHANGED trackVars
    /\ UNCHANGED queryVars
    /\ UNCHANGED gatherVars

Coordinator ==
    \/ StartProcesses
    \/ ForTestX
    \/ PutTask
    \/ queue_idle_command
    \/ wait_for_idle
    \/ ProcessResults
    \/ resume_all
    \/ exit_all
    \/ join_all

Worker(w) ==
    \/ GetTask(w)
    \/ PutIdle(w)
    \/ GetResume(w)
    \/ ProcessTask(w)

Next ==
    \/ StartProcesses
    \/ ForTestX
    \/ PutTask
    \/ queue_idle_command
    \/ wait_for_idle
    \/ ProcessResults
    \/ resume_all
    \/ exit_all
    \/ join_all
    \/ \E w \in Workers : GetTask(w)
    \/ \E w \in Workers : PutIdle(w)
    \/ \E w \in Workers : GetResume(w)
    \/ \E w \in Workers : ProcessTask(w)

Init == SolverInit /\ TrackUnused /\ QueryUnused /\ GatherUnused

\* solve() as the code runs it
Spec == Init /\ [][Next]_vars

\* the coordinator and every worker are processes of their own, each
\* scheduled again and again while it can take a step
Fairness ==
    /\ WF_vars(Coordinator)
    /\ \A w \in 1..MaxWorkers : WF_vars(w \in Workers /\ Worker(w))

FairSpec == Init /\ [][Next]_vars /\ Fairness

\* ---- a task that fails ----

\* condition.for_driver raises, or never returns, on data outside the tables
\* of this model (a driver without a position table, a missing lap time)
TaskFault(w) ==
    /\ wpc[w] = "process_task"
    /\ \E outcome \in {"aborted", "stuck"} : wpc' = [wpc EXCEPT ![w] = outcome]
    /\ UNCHANGED <<number_of_processes, conditions, drivers, tables, x_range, y_range,
                   tasks, idling, resume, cpc, cnt, test_point, todo, n_put,
                   idle_count, merged, results, task, wresults, reported>>
    /\ UNCHANGED trackVars
    /\ UNCHANGED queryVars
    /\ UNCHANGED gatherVars

NextStuck ==
    \/ Next
    \/ \E w \in Workers : TaskFault(w)

\* solve() with tasks that may fail
SpecStuck == Init /\ [][NextStuck]_vars

\* ---- messages the protocol does not know ----

\* an item that is neither 'idle', 'exit', 'resume' nor a task triple
UnexpectedItem == [kind |-> "unexpected", c_index |-> 0, drv |-> 0, point |-> NoPoint, round |-> 0]

\* how many unexpected items are in the queues or were taken from them
UnexpectedSeen ==
    Cardinality({i \in 1..Len(tasks) : tasks[i].kind = "unexpected"})
    + Cardinality({i \in 1..Len(resume) : resume[i].kind = "unexpected"})
    + Cardinality({w \in Workers : wpc[w] = "aborted"})
    + Cardinality({w \in Workers : wpc[w] = "process_task" /\ task[w].kind = "unexpected"})

\* something puts an unexpected item on the task queue
UnexpectedTask ==
    /\ cpc \notin {"start", "unused"}
    /\ UnexpectedSeen < MaxUnexpected
    /\ tasks' = Append(tasks, UnexpectedItem)
    /\ UNCHANGED <<number_of_processes, conditions, drivers, tables, x_range, y_range,
                   idling, resume, cpc, cnt, test_point, todo, n_put, idle_count,
                   merged, results, wpc, task, wresults, reported>>
    /\ UNCHANGED trackVars
    /\ UNCHANGED queryVars
    /\ UNCHANGED gatherVars

\* something puts an unexpected command on the resume queue
UnexpectedCommand ==
    /\ cpc \notin {"start", "unused"}
    /\ UnexpectedSeen < MaxUnexpected
    /\ resume' = Append(resume, UnexpectedItem)
    /\ UNCHANGED <<number_of_processes, conditions, drivers, tables, x_range, y_range,
                   tasks, idling, cpc, cnt, test_point, todo, n_put, idle_count,
                   merged, results, wpc, task, wresults, reported>>
    /\ UNCHANGED trackVars
    /\ UNCHANGED queryVars
    /\ UNCHANGED gatherVars

NextProtocol ==
    \/ Next
    \/ UnexpectedTask
    \/ UnexpectedCommand

\* solve() with queues that may carry unexpected items
SpecProtocol == Init /\ [][NextProtocol]_vars

-----------------------------------------------------------------------------
(* TrackMap.__init__ from position data, and the queries of a generated map *)

\* the coordinates of the position rows of this part
MapCoordValues == {0, 1}

MapPoints == {TrackPoint(x, y) : x \in MapCoordValues, y \in MapCoordValues}

\* one row of a position table as TrackMap reads it
PosRow(date, x, y, status) == [Date |-> date, X |-> x, Y |-> y, Status |-> status]

\* the position tables of n rows: a row every 10 seconds, on track or not
PosTablesOfLen(n) ==
    {[i \in 1..n |-> PosRow(10 * i, c[i].x, c[i].y, c[i].status)] :
        c \in [1..n -> [x : MapCoordValues, y : MapCoordValues,
                        status : {"OnTrack", "OffTrack"}]]}

PosTables == UNION {PosTablesOfLen(n) : n \in 0..MaxRows}

\* the lap table of every driver of this part: laps end at 5, 15, 25 and 35
\* seconds, the third is an in-lap
LapsOfFour ==
    <<Lap(1, 5, 5, Null, Null), Lap(2, 15, 10, Null, Null),
      Lap(3, 25, 10, 24, Null), Lap(4, 35, 10, Null, Null)>>

\* combined = combined.append(tmp) for every driver
RECURSIVE Concat(_)
Concat(frames) ==
    IF frames = <<>> THEN <<>> ELSE Head(frames) \o Concat(Tail(frames))

\* no deduplication
KeepAllOccurrences(s) == s

\* drop_duplicates(): the first occurrence of every value, in order
RECURSIVE DropDuplicates(_)
DropDuplicates(s) ==
    IF s = <<>> THEN <<>>
    ELSE LET init == DropDuplicates(SubSeq(s, 1, Len(s) - 1))
         IN  IF s[Len(s)] \in Range(init) THEN init ELSE Append(init, s[Len(s)])

\* no filter
AllRows(combined) == combined

\* the rows of combined with Status == 'OnTrack'
OnTrackRows(combined) ==
    LET is_on_track(row) == row.Status = "OnTrack"
    IN  SelectSeq(combined, is_on_track)

\* _unsorted_points_from_pos_data: the points appended to unsorted_points
unsorted_points_from_pos_data(pos_frame) ==
    LET combined == OnTrackRows(Concat(pos_frame))
    IN  DropDuplicates([i \in 1..Len(combined) |-> TrackPoint(combined[i].X, combined[i].Y)])

\* the session data is loaded and no solver runs on it
NoSolverRun ==
    /\ number_of_processes = 0
    /\ conditions = 0
    /\ x_range = <<0, 0>>
    /\ y_range = <<0, 0>>
    /\ tasks = <<>>
    /\ idling = <<>>
    /\ resume = <<>>
    /\ cpc = "unused"
    /\ cnt = 0
    /\ test_point = NoPoint
    /\ todo = <<>>
    /\ n_put = 0
    /\ idle_count = 0
    /\ merged = <<>>
    /\ results = <<>>
    /\ wpc = <<>>
    /\ task = <<>>
    /\ wresults = <<>>
    /\ reported = <<>>

\* a TrackMap is about to be constructed from the position data of up to
\* MaxDrivers drivers; the solver's shared tables are the same data
MapInit ==
    /\ \E nd \in 0..MaxDrivers :
          /\ raw_pos_data \in [1..nd -> PosTables]
          /\ drivers = [d \in 1..nd |-> d]
    /\ tables = [d \in DOMAIN raw_pos_data |-> [laps |-> LapsOfFour, pos |-> raw_pos_data[d]]]
    /\ qpc = "idle"
    /\ qargs = <<>>
    /\ qret = <<>>
    /\ variant = "experimental"
    /\ input_points = <<>>
    /\ unsorted_points = <<>>
    /\ sorted_points = <<>>
    /\ excluded_points = <<>>
    /\ next_point = NoPoint
    /\ distances = <<>>
    /\ distances_normalized = <<>>
    /\ track = <<>>
    /\ tpc = "new"
    /\ NoSolverRun
    /\ GatherUnused

\* TrackMap.__init__: numbers[0] raises IndexError when there is no driver
TrackMapInit ==
    /\ tpc = "new"
    /\ IF raw_pos_data = <<>>
       THEN /\ tpc' = "IndexError"
            /\ UNCHANGED <<unsorted_points, input_points>>
       ELSE /\ unsorted_points' = unsorted_points_from_pos_data(raw_pos_data)
            /\ input_points' = unsorted_points_from_pos_data(raw_pos_data)
            /\ tpc' = "constructed"
    /\ UNCHANGED <<variant, sorted_points, excluded_points, next_point,
                   distances, distances_normalized, track>>
    /\ UNCHANGED poolVars
    /\ UNCHANGED queryVars
    /\ UNCHANGED gatherVars

\* what a call that returns a list of points comes to
ReturnedList(points) == [kind |-> "ok", exc |-> "", points |-> points]

\* the points a caller passes to a query beside the map's own: a grid around
\* the track
ProbePoints == {TrackPoint(x, y) : x \in 0..2, y \in 0..1}

\* the times a caller asks a position for: on the samples, between, outside
QueryDates == {5 * k : k \in 1..(2 * MaxRows + 1)}

\* the last of the nearest points instead of the first
get_closest_point_last(sorted, point) ==
    IF sorted = <<>> THEN Raised("ValueError")
    ELSE LET dists == [i \in 1..Len(sorted) |-> get_sqr_dist(sorted[i], point)]
             found == sorted[IndexOfLast(dists, SeqMin(dists))]
         IN  Returned(found.x, found.y)

\* get_closest_point: sorted_points[distances.index(min(distances))]; min()
\* of an empty list raises ValueError
get_closest_point(sorted, point) ==
    IF sorted = <<>> THEN Raised("ValueError")
    ELSE LET dists == [i \in 1..Len(sorted) |-> get_sqr_dist(sorted[i], point)]
             found == sorted[IndexOf(dists, SeqMin(dists))]
         IN  Returned(found.x, found.y)

\* the long way joined without wrapping around the end of the list
get_points_between_unwrapped(sorted, point1, point2, short, include_ref) ==
    IF point1 \notin Range(sorted) \/ point2 \notin Range(sorted)
    THEN Raised("ValueError")
    ELSE LET i1 == IndexOf(sorted, point1)
             i2 == IndexOf(sorted, point2)
             lo == IF i1 < i2 THEN i1 ELSE i2
             hi == IF i1 < i2 THEN i2 ELSE i1
             between == SubSeq(sorted, lo + 1, hi - 1)
             first == SubSeq(sorted, 1, lo - 1)
             second == SubSeq(sorted, hi + 1, Len(sorted))
         IN  ReturnedList(
                 IF short
                 THEN IF ~include_ref THEN between
                      ELSE IF i1 < i2 THEN <<point1>> \o between \o <<point2>>
                      ELSE <<point2>> \o between \o <<point1>>
                 ELSE IF ~include_ref THEN first \o second
                      ELSE IF i1 < i2 THEN <<point2>> \o first \o second \o <<point1>>
                      ELSE <<point1>> \o first \o second \o <<point2>>)

\* get_points_between.  TrackPoint defines no __eq__, so list.index finds a
\* point only if it is the very object held in sorted_points, which are
\* distinct by value; for any other object it raises ValueError.
get_points_between(sorted, point1, point2, short, include_ref) ==
    IF point1 \notin Range(sorted) \/ point2 \notin Range(sorted)
    THEN Raised("ValueError")
    ELSE LET i1 == IndexOf(sorted, point1)
             i2 == IndexOf(sorted, point2)
             lo == IF i1 < i2 THEN i1 ELSE i2
             hi == IF i1 < i2 THEN i2 ELSE i1
             between == SubSeq(sorted, lo + 1, hi - 1)
             first == SubSeq(sorted, 1, lo - 1)
             second == SubSeq(sorted, hi + 1, Len(sorted))
         IN  ReturnedList(
                 IF short
                 THEN IF ~include_ref THEN between
                      ELSE IF i1 < i2 THEN <<point1>> \o between \o <<point2>>
                      ELSE <<point2>> \o between \o <<point1>>
                 ELSE IF ~include_ref THEN second \o first
                      ELSE IF i1 < i2 THEN <<point2>> \o second \o first \o <<point1>>
                      ELSE <<point1>> \o second \o first \o <<point2>>)

\* p[from_coord]
Coord(p, from_coord) == IF from_coord = "x" THEN p.x ELSE p.y

\* get_second_coord: the outcomes of one call.  The interpolation divides by
\* the coordinate difference of the two points it picked; when that is 0 the
\* division raises for Python numbers and gives nan or inf (Null) for numpy
\* numbers.
get_second_coord(sorted, val, ref_point_1, ref_point_2, from_coord) ==
    LET between == get_points_between(sorted, ref_point_1, ref_point_2, TRUE, TRUE)
    IN  IF between.kind = "raise" THEN {between}
        ELSE LET p_range == between.points
                 n == Len(p_range)
                 dists == [i \in 1..n |-> Abs(Coord(p_range[i], from_coord) - val)]
                 min_i == IndexOf(dists, SeqMin(dists))
                 p_a == p_range[min_i]
                 p_b == IF min_i = 1
                        THEN IF dists[2] < dists[n] THEN p_range[2] ELSE p_range[n]
                        ELSE IF min_i = n
                        THEN IF dists[1] < dists[n - 1] THEN p_range[1] ELSE p_range[n - 1]
                        ELSE IF dists[min_i + 1] < dists[min_i - 1]
                        THEN p_range[min_i + 1] ELSE p_range[min_i - 1]
                 delta_x == p_b.x - p_a.x
                 delta_y == p_b.y - p_a.y
             IN  IF from_coord = "x"
                 THEN IF delta_x = 0
                      THEN {Raised("ZeroDivisionError"), Returned(val * Scale, Null)}
                      ELSE {Returned(val * Scale,
                                     p_a.y * Scale + (delta_y * (val - p_a.x) * Scale) \div delta_x)}
                 ELSE IF delta_y = 0
                      THEN {Raised("ZeroDivisionError"), Returned(Null, val * Scale)}
                      ELSE {Returned(p_a.x * Scale + (delta_x * (val - p_a.y) * Scale) \div delta_y,
                                     val * Scale)}

\* the X column after "drv_pos.X = value"
AssignX(drv_pos, value) ==
    [i \in 1..Len(drv_pos) |-> [drv_pos[i] EXCEPT !.X = value]]

\* the chained assignment carried out before the exception
get_time_from_pos_assigning(sorted, drv_pos, x, y) ==
    LET closest_track_pnt == get_closest_point(sorted, TrackPoint(x, y))
    IN  [ret |-> Raised("AttributeError"),
         drv_pos |-> AssignX(drv_pos, closest_track_pnt.x)]

\* get_time_from_pos up to its first exception: in
\* "is_x = drv_pos.X = closest_track_pnt.X" the right hand side is evaluated
\* first and a TrackPoint has no attribute X, so the call raises
\* AttributeError and assigns nothing
get_time_from_pos(sorted, drv_pos, x, y) ==
    LET closest_track_pnt == get_closest_point(sorted, TrackPoint(x, y))
    IN  IF closest_track_pnt.kind = "raise"
        THEN [ret |-> closest_track_pnt, drv_pos |-> drv_pos]
        ELSE [ret |-> Raised("AttributeError"), drv_pos |-> drv_pos]

\* what no query assigns to
QueryFrame ==
    /\ UNCHANGED trackVars
    /\ UNCHANGED poolVars
    /\ UNCHANGED gatherVars

CallGetClosestPoint ==
    /\ tpc = "generated"
    /\ qpc = "idle"
    /\ \E point \in ProbePoints :
          /\ qargs' = [point |-> point]
          /\ qret' = get_closest_point(sorted_points, point)
    /\ qpc' = "get_closest_point"
    /\ UNCHANGED raw_pos_data
    /\ QueryFrame

CallGetPointsBetween ==
    /\ tpc = "generated"
    /\ qpc = "idle"
    /\ \E point1, point2 \in Range(sorted_points) \cup {NoPoint} :
       \E short, include_ref \in BOOLEAN :
          /\ qargs' = [point1 |-> point1, point2 |-> point2,
                       short |-> short, include_ref |-> include_ref]
          /\ qret' = get_points_between(sorted_points, point1, point2, short, include_ref)
    /\ qpc' = "get_points_between"
    /\ UNCHANGED raw_pos_data
    /\ QueryFrame

CallGetSecondCoord ==
    /\ tpc = "generated"
    /\ qpc = "idle"
    /\ \E ref_point_1, ref_point_2 \in Range(sorted_points) :
       \E val \in MapCoordValues, from_coord \in {"x", "y"} :
          /\ qargs' = [val |-> val, ref_point_1 |-> ref_point_1,
                       ref_point_2 |-> ref_point_2, from_coord |-> from_coord]
          /\ qret' \in get_second_coord(sorted_points, val, ref_point_1, ref_point_2, from_coord)
    /\ qpc' = "get_second_coord"
    /\ UNCHANGED raw_pos_data
    /\ QueryFrame

CallGetTimeFromPos ==
    /\ tpc = "generated"
    /\ qpc = "idle"
    /\ \E drv \in DOMAIN raw_pos_data : \E pnt \in MapPoints :
          LET res == get_time_from_pos(sorted_points, raw_pos_data[drv], pnt.x, pnt.y)
          IN  /\ qargs' = [drv |-> drv, x |-> pnt.x, y |-> pnt.y]
              /\ qret' = res.ret
              /\ raw_pos_data' = [raw_pos_data EXCEPT ![drv] = res.drv_pos]
    /\ qpc' = "get_time_from_pos"
    /\ QueryFrame

CallInterpolatePosFromTime ==
    /\ tpc = "generated"
    /\ qpc = "idle"
    /\ \E drv \in DOMAIN raw_pos_data : \E query_date \in QueryDates :
          /\ qargs' = [drv |-> drv, query_date |-> query_date]
          /\ qret' = interpolate_pos_from_time(raw_pos_data[drv], query_date)
    /\ qpc' = "interpolate_pos_from_time"
    /\ UNCHANGED raw_pos_data
    /\ QueryFrame

\* a worker evaluates one task: condition.for_driver(drv, test_point), which
\* reads the shared lap and position tables and the track
CallForDriver ==
    /\ tpc = "generated"
    /\ qpc = "idle"
    /\ \E drv \in DOMAIN tables : \E pnt \in MapPoints :
          /\ qargs' = [drv |-> drv, test_point |-> pnt]
          /\ qret' = for_driver(tables[drv], pnt, 0)
    /\ qpc' = "for_driver"
    /\ UNCHANGED raw_pos_data
    /\ QueryFrame

MapNext ==
    \/ TrackMapInit
    \/ SortPointsPop
    \/ SortPointsStep
    \/ SortPointsFinish
    \/ IntegrateDistance
    \/ CallGetClosestPoint
    \/ CallGetPointsBetween
    \/ CallGetSecondCoord
    \/ CallGetTimeFromPos
    \/ CallInterpolatePosFromTime
    \/ CallForDriver

SpecMap == MapInit /\ [][MapNext]_vars

-----------------------------------------------------------------------------
(* The lap filter: _get_start_line_range and for_driver on one driver's data *)

\* the laps a driver can have: a plain lap, a lap with no lap number, an
\* in-lap, an out-lap, a lap with a pit stop at either end
LapKinds == {"plain", "no number", "in", "out", "in and out"}

\* lap i of a driver takes 20 seconds and ends 20 * i seconds into the session
LapOfKind(i, kind) ==
    Lap(IF kind = "no number" THEN Null ELSE i, 20 * i, 20,
        IF kind \in {"in", "in and out"} THEN 20 * i - 1 ELSE Null,
        IF kind \in {"out", "in and out"} THEN 20 * i - 19 ELSE Null)

LapTables ==
    UNION {{[i \in 1..n |-> LapOfKind(i, kinds[i])] : kinds \in [1..n -> LapKinds]} :
              n \in 0..MaxLaps}

\* a sample every 10 seconds, 5 seconds before and after every lap end, the
\* car at x = -5 before the lap end and at x = 5 after it
DensePositions ==
    [k \in 1..(2 * MaxLaps) |->
        PosRow(10 * k + 5, IF k % 2 = 1 THEN 0 - 5 ELSE 5, 10 * k + 5, "OnTrack")]

\* the position tables of the driver: every sample, or all but one
CondPosTables ==
    {DensePositions} \cup
    {RemoveAt(DensePositions, k) : k \in 1..Len(DensePositions)}

\* the candidate points: on the line the car crosses, at the samples after
\* the lap end, and beyond every sample
CondProbes == {TrackPoint(0, 0), TrackPoint(5, 0), TrackPoint(10, 0)}

\* the times a position is asked for: on samples, halfway between them, and
\* 3 seconds after a sample
CondDates == {5 * k : k \in 3..8} \cup {28}

\* the lap filter without its last test
LapSkippedNoPitOut(lap, drv_total_laps) ==
    \/ lap.NumberOfLaps = Null
    \/ lap.NumberOfLaps \in {1, drv_total_laps}
    \/ lap.PitInTime # Null

\* the lap filter of _get_start_line_range
LapSkippedInRange(lap, drv_total_laps) ==
    \/ lap.NumberOfLaps = Null
    \/ lap.NumberOfLaps \in {1, drv_total_laps}
    \/ lap.PitInTime # Null
    \/ lap.PitOutTime # Null

\* one pass of the loop over the laps of a driver in _get_start_line_range
RangeLap(lap, drv_total_laps, drv_pos, session_start_date) ==
    IF LapSkippedInRange(lap, drv_total_laps) THEN Skipped
    ELSE interpolate_pos_from_time(drv_pos, session_start_date + lap.Time)

RECURSIVE RangeLaps(_, _, _, _)
RangeLaps(laps, drv_total_laps, drv_pos, session_start_date) ==
    IF laps = <<>> THEN Returned(<<>>, <<>>)
    ELSE AppendLap(RangeLap(Head(laps), drv_total_laps, drv_pos, session_start_date),
                   RangeLaps(Tail(laps), drv_total_laps, drv_pos, session_start_date),
                   Head(laps).NumberOfLaps)

\* the loop over self.drivers: x_coords and y_coords before the rejection of
\* outliers, or the exception of the first pass that raises
RECURSIVE RangeDrivers(_, _, _)
RangeDrivers(drvs, data, session_start_date) ==
    IF drvs = <<>> THEN Returned(<<>>, <<>>)
    ELSE LET table == data[Head(drvs)]
             r == RangeLaps(table.laps, MaxLapNumber(table.laps), table.pos,
                            session_start_date)
             rest == RangeDrivers(Tail(drvs), data, session_start_date)
         IN  IF r.kind = "raise" THEN r
             ELSE IF rest.kind = "raise" THEN rest
             ELSE Returned(r.x \o rest.x, r.y \o rest.y)

\* the k-th smallest value of s
SortedNth(s, k) ==
    CHOOSE v \in Range(s) :
        /\ Cardinality({i \in 1..Len(s) : s[i] < v}) < k
        /\ Cardinality({i \in 1..Len(s) : s[i] <= v}) >= k

\* twice np.median(s) for a non-empty s
Median2(s) == SortedNth(s, (Len(s) + 1) \div 2) + SortedNth(s, (Len(s) + 2) \div 2)

\* reject_outliers(data, secondary, m): the indices kept.  s = d / mdev is the
\* scalar 0. when mdev is 0, and s < m is then true of every element.
KeptByRejectOutliers(data, m) ==
    IF data = <<>> THEN {}
    ELSE LET d2 == [i \in 1..Len(data) |-> Abs(2 * data[i] - Median2(data))]
             mdev4 == Median2(d2)
         IN  IF mdev4 = 0 THEN 1..Len(data)
             ELSE {i \in 1..Len(data) : 2 * d2[i] < m * mdev4}

\* the elements of s at the indices kept, in order
Kept(s, kept) ==
    [k \in 1..Cardinality(kept) |->
        s[CHOOSE i \in kept : Cardinality({j \in kept : j < i}) = k - 1]]

\* _get_start_line_range: the coordinates collected (collected_x, the list
\* usable_laps counts) and the coordinates returned after reject_outliers
\* with m=100.0
get_start_line_range(drvs, data, session_start_date) ==
    LET collected == RangeDrivers(drvs, data, session_start_date)
    IN  IF collected.kind = "raise"
        THEN [kind |-> "raise", exc |-> collected.exc, x |-> <<>>, y |-> <<>>,
              collected_x |-> <<>>]
        ELSE LET kept == KeptByRejectOutliers([i \in 1..Len(collected.x) |-> collected.x[i].v], 100)
             IN  [kind |-> "ok", exc |-> "", x |-> Kept(collected.x, kept),
                  y |-> Kept(collected.y, kept), collected_x |-> collected.x]

\* the lap and position tables of one driver are loaded; nothing is evaluated yet
CondInit ==
    /\ \E laps \in LapTables, pos \in CondPosTables :
          tables = <<[laps |-> laps, pos |-> pos]>>
    /\ drivers = <<1>>
    /\ raw_pos_data = <<tables[1].pos>>
    /\ qpc = "idle"
    /\ qargs = <<>>
    /\ qret = <<>>
    /\ TrackUnused
    /\ NoSolverRun
    /\ GatherUnused

\* what no evaluation assigns to
CondFrame ==
    /\ UNCHANGED trackVars
    /\ UNCHANGED poolVars
    /\ UNCHANGED raw_pos_data
    /\ UNCHANGED gatherVars

\* StartFinishCondition.for_driver(drv, test_point)
EvalForDriver ==
    /\ tpc = "unused"
    /\ qpc = "idle"
    /\ \E drv \in DOMAIN tables : \E pnt \in CondProbes :
          /\ qargs' = [drv |-> drv, test_point |-> pnt]
          /\ qret' = for_driver(tables[drv], pnt, 0)
    /\ qpc' = "for_driver"
    /\ CondFrame

\* AdvancedSyncSolver._get_start_line_range()
EvalGetStartLineRange ==
    /\ tpc = "unused"
    /\ qpc = "idle"
    /\ qargs' = <<>>
    /\ qret' = get_start_line_range(drivers, tables, 0)
    /\ qpc' = "_get_start_line_range"
    /\ CondFrame

\* TrackMap.interpolate_pos_from_time(drv, query_date)
EvalInterpolatePosFromTime ==
    /\ tpc = "unused"
    /\ qpc = "idle"
    /\ \E drv \in DOMAIN raw_pos_data : \E query_date \in CondDates :
          /\ qargs' = [drv |-> drv, query_date |-> query_date]
          /\ qret' = <<interpolate_pos_from_time(raw_pos_data[drv], query_date)>>
    /\ qpc' = "interpolate_pos_from_time"
    /\ CondFrame

\* the same call once more: qret holds the results of both calls
EvalInterpolatePosFromTimeAgain ==
    /\ qpc = "interpolate_pos_from_time"
    /\ Len(qret) = 1
    /\ qret' = Append(qret, interpolate_pos_from_time(raw_pos_data[qargs.drv], qargs.query_date))
    /\ UNCHANGED <<qpc, qargs>>
    /\ CondFrame

CondNext ==
    \/ EvalForDriver
    \/ EvalGetStartLineRange
    \/ EvalInterpolatePosFromTime
    \/ EvalInterpolatePosFromTimeAgain

SpecCondition == CondInit /\ [][CondNext]_vars

-----------------------------------------------------------------------------
(* s3_to_start_finish_v1 and _s3_to_start_finish_subprocess of src/testing.py. *)
(* Times are counted in sample periods (sample_freq).                         *)

\* number_of_processes = 4
GatherProcesses == 4

\* pd.Timedelta('00:00:01.5'), the margin of the search range, in sample periods
SearchMargin == 2

\* chunks(lst, n): successive n-sized chunks from lst
chunks(lst, n) ==
    [k \in 1..((Len(lst) + n - 1) \div n) |->
        SubSeq(lst, (k - 1) * n + 1, IF k * n < Len(lst) THEN k * n ELSE Len(lst))]

\* one row of laps_data and one row of pos[drv]
LapRow(number, time, sector3) ==
    [NumberOfLaps |-> number, Time |-> time, Sector3Time |-> sector3]

TimedRow(time, x, y) == [Time |-> time, Date |-> time, X |-> x, Y |-> y]

\* laps_data[laps_data.Driver == drv]: every third driver has three laps, the others two
laps_this_driver(drv) ==
    IF drv % 3 = 1
    THEN <<LapRow(1, 10, 3), LapRow(2, 20, 4), LapRow(3, 30, 4)>>
    ELSE <<LapRow(1, 10, 3), LapRow(2, 20, 4)>>

\* pos[drv], the position samples of a driver.  Of three drivers, one has samples over
\* the whole search range of its lap, one has samples that end before the
\* second offset of lap 1 and cover lap 2, one has samples that end before
\* the first offset
pos_of(drv) ==
    IF drv % 3 = 0
    THEN <<TimedRow(5, 0, 0), TimedRow(8, 30, 0), TimedRow(12, 70, 40), TimedRow(15, 90, 40)>>
    ELSE IF drv % 3 = 1
    THEN <<TimedRow(6, 0, 10), TimedRow(9, 30, 10), TimedRow(15, 50, 0), TimedRow(22, 120, 70)>>
    ELSE <<TimedRow(10, 0, 0), TimedRow(11, 10, 5)>>

\* max_laps = int(laps_this_driver['NumberOfLaps'].max())
max_laps(drv) ==
    LET ns == {laps_this_driver(drv)[k].NumberOfLaps : k \in 1..Len(laps_this_driver(drv))}
    IN  CHOOSE n \in ns : \A m \in ns : m <= n

\* laps_this_driver.query('NumberOfLaps == @i')
LapRowOf(drv, i) ==
    laps_this_driver(drv)[CHOOSE k \in 1..Len(laps_this_driver(drv)) : laps_this_driver(drv)[k].NumberOfLaps = i]

\* filtered_pos: the rows with search_range_start <= Time <= search_range_end
filtered_pos(drv, i) ==
    LET time_lap == LapRowOf(drv, i).Time
        sector3time == LapRowOf(drv, i).Sector3Time
        search_range_start == time_lap - sector3time - SearchMargin
        search_range_end == time_lap + SearchMargin
        rows == pos_of(drv)
        sel(k) == search_range_start <= rows[k].Time /\ rows[k].Time <= search_range_end
    IN  [n \in 1..Cardinality({k \in 1..Len(rows) : sel(k)}) |->
            rows[CHOOSE k \in 1..Len(rows) :
                    sel(k) /\ Cardinality({j \in 1..(k - 1) : sel(j)}) = n - 1]]

\* the index of update_df: every sample period from the first to the last
\* Date of filtered_pos
InIndex(rows, t) == rows[1].Date <= t /\ t <= rows[Len(rows)].Date

\* update_df[col] at index t after update, interpolate and round_coordinates:
\* the known value, or the value on the line between the known rows around t,
\* rounded to 3 decimals (units of 1/Scale)
ValueAt(rows, t, col) ==
    LET a == rows[CHOOSE k \in 1..Len(rows) :
                    /\ rows[k].Date <= t
                    /\ \A j \in 1..Len(rows) : rows[j].Date <= t => j <= k]
        b == rows[CHOOSE k \in 1..Len(rows) :
                    /\ rows[k].Date >= t
                    /\ \A j \in 1..Len(rows) : rows[j].Date >= t => j >= k]
    IN  IF a.Date = b.Date THEN a[col] * Scale
        ELSE a[col] * Scale + DivRound((b[col] - a[col]) * (t - a.Date) * Scale,
                                       b.Date - a.Date)

\* end_time = time0 + sector3time + timedelta
end_time(drv, i, dt) ==
    filtered_pos(drv, i)[1].Date + LapRowOf(drv, i).Sector3Time + dt

NoValues == [xs |-> <<>>, ys |-> <<>>, xe |-> <<>>, ye |-> <<>>]

\* the start values appended before the lookup of the end values
SampledStartFirst(vals, rows, t) ==
    IF InIndex(rows, t)
    THEN [xs |-> Append(vals.xs, ValueAt(rows, rows[1].Date, "X")),
          ys |-> Append(vals.ys, ValueAt(rows, rows[1].Date, "Y")),
          xe |-> Append(vals.xe, ValueAt(rows, t, "X")),
          ye |-> Append(vals.ye, ValueAt(rows, t, "Y"))]
    ELSE [vals EXCEPT !.xs = Append(vals.xs, ValueAt(rows, rows[1].Date, "X")),
                      !.ys = Append(vals.ys, ValueAt(rows, rows[1].Date, "Y"))]

\* the body of the try block: update_df.loc[end_time] raises KeyError when
\* end_time is not in the index, before anything is appended
Sampled(vals, rows, t) ==
    IF InIndex(rows, t)
    THEN [xs |-> Append(vals.xs, ValueAt(rows, rows[1].Date, "X")),
          ys |-> Append(vals.ys, ValueAt(rows, rows[1].Date, "Y")),
          xe |-> Append(vals.xe, ValueAt(rows, t, "X")),
          ye |-> Append(vals.ye, ValueAt(rows, t, "Y"))]
    ELSE vals

\* the (driver, lap) the two outer loops come to next, from lap i of the d-th
\* driver of drvs on; d is Len(drvs) + 1 when the loops are over
RECURSIVE LoopPosition(_, _, _)
LoopPosition(drvs, d, i) ==
    IF d > Len(drvs) THEN [d |-> d, i |-> 1, dt |-> 0]
    ELSE IF i < max_laps(drvs[d]) THEN [d |-> d, i |-> i, dt |-> 0]
    ELSE LoopPosition(drvs, d + 1, 1)

Subprocesses == DOMAIN processes

\* drivers = list(tel.keys()), nothing started yet
GatherInit ==
    /\ \E n \in 1..MaxTelDrivers : tel_drivers = [d \in 1..n |-> d]
    /\ chunks_left = chunks(tel_drivers, Len(tel_drivers) \div GatherProcesses + 1)
    /\ processes = <<>>
    /\ ret_vals = <<>>
    /\ result = <<>>
    /\ s3pc = "spawn"
    /\ s3i = 0
    /\ subpc = <<>>
    /\ subpos = <<>>
    /\ subvals = <<>>
    /\ TrackUnused
    /\ SolverUnused
    /\ QueryUnused

\* what s3_to_start_finish_v1 and its subprocesses never touch
GatherFrame ==
    /\ UNCHANGED trackVars
    /\ UNCHANGED poolVars
    /\ UNCHANGED queryVars

\* one pass of the loop over chunks(...): p = mp.Process(...), append, start
SpawnSubprocess ==
    /\ s3pc = "spawn"
    /\ chunks_left # <<>>
    /\ processes' = Append(processes, Head(chunks_left))
    /\ chunks_left' = Tail(chunks_left)
    /\ subpc' = Append(subpc, "running")
    /\ subpos' = Append(subpos, LoopPosition(Head(chunks_left), 1, 1))
    /\ subvals' = Append(subvals, NoValues)
    /\ UNCHANGED <<tel_drivers, ret_vals, result, s3pc, s3i>>
    /\ GatherFrame

\* the generator is exhausted: result = {'xs': list(), ...}
CreateResult ==
    /\ s3pc = "spawn"
    /\ chunks_left = <<>>
    /\ result' = NoValues
    /\ s3pc' = "get"
    /\ s3i' = 0
    /\ UNCHANGED <<tel_drivers, chunks_left, processes, ret_vals, subpc, subpos, subvals>>
    /\ GatherFrame

\* from_q = q.get() (blocking) and the extension of the four lists
GetResult ==
    /\ s3pc = "get"
    /\ s3i < GatherProcesses
    /\ ret_vals # <<>>
    /\ LET from_q == Head(ret_vals)
       IN  result' = [key \in DOMAIN result |-> result[key] \o from_q[key]]
    /\ ret_vals' = Tail(ret_vals)
    /\ s3i' = IF s3i + 1 = GatherProcesses THEN 0 ELSE s3i + 1
    /\ s3pc' = IF s3i + 1 = GatherProcesses THEN "join" ELSE "get"
    /\ UNCHANGED <<tel_drivers, chunks_left, processes, subpc, subpos, subvals>>
    /\ GatherFrame

\* p.join() for the next process of _processes (blocking); after the last
\* one the function goes on to its end
JoinSubprocess ==
    /\ s3pc = "join"
    /\ s3i < Len(processes)
    /\ subpc[s3i + 1] = "exited"
    /\ s3i' = s3i + 1
    /\ s3pc' = IF s3i + 1 = Len(processes) THEN "done" ELSE "join"
    /\ UNCHANGED <<tel_drivers, chunks_left, processes, ret_vals, result,
                   subpc, subpos, subvals>>
    /\ GatherFrame

\* one pass of the loop over dt for the lap the subprocess is at: the try
\* block, and on KeyError or after the last offset the step to the next lap
SampleOffset(p) ==
    /\ subpc[p] = "running"
    /\ subpos[p].d <= Len(processes[p])
    /\ LET drv == processes[p][subpos[p].d]
           i == subpos[p].i
           dt == subpos[p].dt
           rows == filtered_pos(drv, i)
           t == end_time(drv, i, dt)
       IN  /\ subvals' = [subvals EXCEPT ![p] = Sampled(subvals[p], rows, t)]
           /\ subpos' = [subpos EXCEPT ![p] =
                 IF InIndex(rows, t) /\ dt + 1 < MaxOffsets
                 THEN [subpos[p] EXCEPT !.dt = dt + 1]
                 ELSE LoopPosition(processes[p], subpos[p].d, i + 1)]
    /\ UNCHANGED <<tel_drivers, chunks_left, processes, ret_vals, result,
                   s3pc, s3i, subpc>>
    /\ GatherFrame

\* ret_vals.put(ret_dict), and the subprocess ends
PutResult(p) ==
    /\ subpc[p] = "running"
    /\ subpos[p].d > Len(processes[p])
    /\ ret_vals' = Append(ret_vals, subvals[p])
    /\ subpc' = [subpc EXCEPT ![p] = "exited"]
    /\ UNCHANGED <<tel_drivers, chunks_left, processes, result, s3pc, s3i,
                   subpos, subvals>>
    /\ GatherFrame

GatherNext ==
    \/ SpawnSubprocess
    \/ CreateResult
    \/ GetResult
    \/ JoinSubprocess
    \/ \E p \in Subprocesses : SampleOffset(p)
    \/ \E p \in Subprocesses : PutResult(p)

SpecGather == GatherInit /\ [][GatherNext]_vars

-----------------------------------------------------------------------------
(* Properties of track construction *)

SortReturned == tpc \in {"sorted", "generated", "ZeroDivisionError"}

\* how often p occurs in the list s
Count(s, p) == Cardinality({i \in 1..Len(s) : s[i] = p})

\* every input point is in exactly one of sorted_points and excluded_points
InputPartitioned ==
    \A p \in Range(input_points) :
        Count(sorted_points, p) + Count(excluded_points, p) = 1

\* C8 (as claimed): for n >= 1 deduplicated points _sort_points never raises,
\* and once it has returned every input point is in exactly one of
\* sorted_points and excluded_points.
C8_SortNeverFatalAndPartitions ==
    Len(input_points) >= 1 =>
        /\ tpc # "IndexError"
        /\ SortReturned => InputPartitioned

\* the cyclic orders of the points pts that start with pts[1]
CyclicOrders(pts) ==
    {c \in DistinctSeqsOfLen(Range(pts), Len(pts)) : c[1] = pts[1]}

CyclicNext(c, i) == c[(i % Len(c)) + 1]

CyclicPrev(c, i) == c[((i + Len(c) - 2) % Len(c)) + 1]

\* c is a closed loop whose loop-adjacent points are within the outlier limit
LoopWithinLimit(c) ==
    \A i \in 1..Len(c) : get_sqr_dist(c[i], CyclicNext(c, i)) <= OutlierLimit

\* in the loop c every point is strictly nearer to its two loop neighbours
\* than to any other point
NeighboursNearest(c) ==
    \A i, j \in 1..Len(c) :
        (j # i /\ c[j] # CyclicNext(c, i) /\ c[j] # CyclicPrev(c, i)) =>
            /\ get_sqr_dist(c[i], c[j]) > get_sqr_dist(c[i], CyclicNext(c, i))
            /\ get_sqr_dist(c[i], c[j]) > get_sqr_dist(c[i], CyclicPrev(c, i))

IsGaplessLoop(pts) ==
    Len(pts) >= 3 /\ \E c \in CyclicOrders(pts) : LoopWithinLimit(c)

IsChainableLoop(pts) ==
    Len(pts) >= 3 /\ \E c \in CyclicOrders(pts) : LoopWithinLimit(c) /\ NeighboursNearest(c)

AllSortedNoneExcluded ==
    /\ excluded_points = <<>>
    /\ Len(sorted_points) = Len(input_points)
    /\ Range(sorted_points) = Range(input_points)

\* C9 (as claimed): any input that forms a closed loop with loop-adjacent
\* spacing within the limit is sorted completely, nothing excluded.
C9_AnyGaplessLoopFullySorted ==
    (variant = "experimental" /\ IsGaplessLoop(input_points)) =>
        /\ tpc # "IndexError"
        /\ SortReturned => AllSortedNoneExcluded

\* C9 (amended): a closed loop with loop-adjacent spacing within the limit,
\* in which every point is strictly nearer to its two loop neighbours than to
\* any other point, is sorted completely (every input point exactly once,
\* nothing excluded), whichever point comes first in the input.
C9_ChainableLoopFullySorted ==
    (variant = "experimental" /\ IsChainableLoop(input_points)) =>
        /\ tpc # "IndexError"
        /\ SortReturned => AllSortedNoneExcluded

\* a loop of four points with a side of exactly the limit has been sorted
C9_Witness ==
    /\ variant = "experimental"
    /\ IsChainableLoop(input_points)
    /\ Len(input_points) = 4
    /\ \E i \in 1..3 : get_sqr_dist(input_points[i], input_points[i + 1]) = OutlierLimit
    /\ tpc = "sorted"
    /\ Len(sorted_points) = 4

UnitSquare == <<TrackPoint(0, 0), TrackPoint(1, 0), TrackPoint(1, 1), TrackPoint(0, 1)>>

\* C10: for the unit square (0,0),(1,0),(1,1),(0,1) generate_track raises
\* nothing and ends with the four points sorted in input order, none
\* excluded, distances [0,1,2,3], normalized distances [0,1/3,2/3,1], and four
\* entries per column (no entry for the closing edge).
C10_UnitSquare ==
    (variant = "experimental" /\ input_points = UnitSquare) =>
        /\ tpc \notin {"IndexError", "ZeroDivisionError"}
        /\ tpc \in {"sorted", "generated"} =>
               /\ sorted_points = UnitSquare
               /\ excluded_points = <<>>
        /\ tpc = "generated" =>
               /\ distances = <<0, Scale, 2 * Scale, 3 * Scale>>
               /\ distances_normalized = <<<<0, 1>>, <<1, 3>>, <<2, 3>>, <<1, 1>>>>
               /\ track.X = <<0, 1, 1, 0>> /\ track.Y = <<0, 0, 1, 1>>
               /\ track.Distance = distances
               /\ track.Normalized = distances_normalized

C10_Witness ==
    variant = "experimental" /\ input_points = UnitSquare /\ tpc = "generated"

-----------------------------------------------------------------------------
(* Properties of the worker pool *)

NoDuplicates(list) == \A i, j \in 1..Len(list) : list[i] = list[j] => i = j

\* the outputs of the tasks of the current sweep step for condition c: list
\* "x" or "y" of for_driver for every driver, tagged with their task
ExpectedOutputs(c, xy) ==
    UNION {Range(Tagged(IF xy = "x" THEN ForDriver(tables[drivers[d]], test_point).x
                        ELSE ForDriver(tables[drivers[d]], test_point).y,
                        TaskItem(c, drivers[d], test_point, cnt))) : d \in 1..Len(drivers)}

ReportsOfRound(round) == SeqSum([w \in Workers |-> reported[w][round]])

\* C1: when wait_for_idle returns in a sweep step it has received exactly N
\* reports, exactly N were pushed in the step, and for every condition the
\* merged x list and y list hold the outputs of all tasks of this step, each
\* once, and nothing else.
C1_MergedIsUnionOfStepOutputs ==
    cpc = "process_results" =>
        /\ idle_count = number_of_processes
        /\ ReportsOfRound(cnt) = number_of_processes
        /\ idling = <<>>
        /\ DOMAIN merged \subseteq 0..(conditions - 1)
        /\ \A c \in 0..(conditions - 1) :
              IF HasKey(merged, c)
              THEN /\ NoDuplicates(merged[c].x) /\ NoDuplicates(merged[c].y)
                   /\ Range(merged[c].x) = ExpectedOutputs(c, "x")
                   /\ Range(merged[c].y) = ExpectedOutputs(c, "y")
              ELSE ExpectedOutputs(c, "x") = {} /\ ExpectedOutputs(c, "y") = {}

\* two workers, a later sweep step, outputs of two drivers merged
C1_Witness ==
    /\ cpc = "process_results"
    /\ number_of_processes = 2
    /\ cnt = 2
    /\ HasKey(merged, 0)
    /\ \E i, j \in 1..Len(merged[0].x) : merged[0].x[i].src[3] # merged[0].x[j].src[3]

\* C2 (as claimed): a worker holds a task of sweep step k+1 only after every
\* one of the N workers has pushed a report for sweep step k.
C2_NoTaskBeforeAllWorkersReported ==
    \A w \in Workers :
        (wpc[w] = "process_task" /\ task[w].kind = "task" /\ task[w].round > 1) =>
            \A v \in Workers : reported[v][task[w].round - 1] >= 1

\* what does hold: a task of step k+1 is held only after N reports were
\* pushed for step k
NoTaskBeforeNReports ==
    \A w \in Workers :
        (wpc[w] = "process_task" /\ task[w].kind = "task" /\ task[w].round > 1) =>
            ReportsOfRound(task[w].round - 1) = number_of_processes

AllDone == cpc = "done" /\ \A w \in Workers : wpc[w] = "exited"

\* C3 (as claimed): under fair scheduling, no task raising, solve() ends with
\* join_all returned and every worker terminated.
C3_SolveTerminates == <>AllDone

\* what does hold: with a condition and a driver registered, or with no sweep
\* step, it does
TerminatesWithACondition ==
    ((conditions >= 1 /\ drivers # <<>>) \/ NumberOfSteps = 0) => <>AllDone

\* C4 (as claimed): once the reports of a sweep step are in, every worker has
\* pushed exactly one report (taken exactly one idle marker) in that step.
C4_OneReportPerWorkerPerStep ==
    cpc \in {"process_results", "resume_all"} =>
        \A w \in Workers : reported[w][cnt] = 1

\* fewer than 2 position samples, or nothing on one side of the candidate line
\* inside the window of the lap
InsufficientData(drv, lap_number, point) ==
    \/ Len(tables[drv].pos) < 2
    \/ \E i \in 1..Len(tables[drv].laps) :
          /\ tables[drv].laps[i].NumberOfLaps = lap_number
          /\ \/ Partition(tables[drv].pos, tables[drv].laps[i].Time, point, TRUE) = <<>>
             \/ Partition(tables[drv].pos, tables[drv].laps[i].Time, point, FALSE) = <<>>

\* every result element held anywhere: by a worker, in a report in flight, or
\* merged by the coordinator
ElementsOfDict(d) == UNION {Range(d[c].x) \cup Range(d[c].y) : c \in DOMAIN d}

AllElements ==
    UNION ({ElementsOfDict(wresults[w]) : w \in Workers}
           \cup {ElementsOfDict(idling[i]) : i \in 1..Len(idling)}
           \cup {ElementsOfDict(merged)})

NoResultFromInsufficientData ==
    \A e \in AllElements : ~InsufficientData(e.src[3], e.src[4], CandidatePoint(e.src[1]))

\* C5: insufficient data never aborts a sweep step: no result element comes
\* from a driver with fewer than 2 samples or from a lap with an empty
\* partition, no worker ends with an exception, and a coordinator waiting in
\* wait_for_idle always gets its N reports.
C5_InsufficientDataSkipped ==
    /\ [](NoResultFromInsufficientData /\ \A w \in Workers : wpc[w] # "aborted")
    /\ (cpc = "wait_for_idle") ~> (cpc = "process_results")

\* the reports of a step are in although one driver has a single sample and
\* the other has nothing after the candidate line
C5_Witness ==
    /\ cpc = "process_results"
    /\ conditions >= 1
    /\ \E d \in DOMAIN tables : Len(tables[d].pos) = 1
    /\ \E d \in DOMAIN tables : Len(tables[d].pos) >= 2 /\ InsufficientData(d, 2, test_point)
    /\ \A w \in Workers : task[w].kind = "idle"

Failed(w) == wpc[w] \in {"aborted", "stuck"}

\* what the coordinator is held to by worker w failing in a task: it is still
\* queuing the step of that task or is in wait_for_idle with fewer than N
\* reports, with no statistics recorded for the step and no 'exit' put
StalledBy(w) ==
    /\ cpc \in {"put_tasks", "queue_idle", "wait_for_idle"}
    /\ cnt = task[w].round
    /\ Len(results.tx) = cnt - 1
    /\ (cpc = "wait_for_idle" => idle_count < number_of_processes)
    /\ ReportsOfRound(cnt) < number_of_processes
    /\ \A i \in 1..Len(resume) : resume[i].kind # "exit"

\* C6: a worker that is stuck in a task of a sweep step, or has aborted in
\* it, stays so, and from then on the coordinator never gets past
\* wait_for_idle of that step: fewer than N reports are ever pushed for it,
\* no statistics are recorded for it, no later step is queued and no 'exit'
\* is put.
C6_StuckWorkerStallsCoordinator ==
    /\ [](\A w \in Workers : Failed(w) => StalledBy(w))
    /\ [][\A w \in Workers : Failed(w) => wpc'[w] = wpc[w]]_vars

\* one of two workers is stuck, the other has reported and waits for a resume
\* that never comes; an idle marker is left in the task queue
C6_Witness ==
    /\ number_of_processes = 2
    /\ \E w \in Workers : wpc[w] = "stuck"
    /\ \E w \in Workers : wpc[w] = "wait_resume"
    /\ cpc = "wait_for_idle"
    /\ idle_count = 1
    /\ idling = <<>>
    /\ resume = <<>>
    /\ Len(tasks) = 1

\* C7: a worker that takes an unexpected item from the task queue, or an
\* unexpected command from the resume queue, ends with an exception: it adds
\* no result for it, and once ended it pushes no report and changes nothing.
C7_UnexpectedMessageAborts ==
    [][\A w \in Workers :
          /\ (wpc[w] = "process_task" /\ task[w].kind = "unexpected" /\ wpc'[w] # wpc[w]) =>
                (wpc'[w] = "aborted" /\ wresults'[w] = wresults[w])
          /\ (wpc[w] = "wait_resume" /\ wpc'[w] # wpc[w] /\ Head(resume).kind = "unexpected") =>
                (wpc'[w] = "aborted" /\ wresults'[w] = wresults[w])
          /\ wpc[w] = "aborted" =>
                (wpc'[w] = "aborted" /\ reported'[w] = reported[w] /\ wresults'[w] = wresults[w])
      ]_vars

\* a worker has ended on an unexpected resume command
C7_Witness ==
    \E w \in Workers : wpc[w] = "aborted" /\ task[w].kind = "idle"

-----------------------------------------------------------------------------
(* Properties of the arc length *)

\* a / b <= c / d for fractions of naturals with b, d > 0, by integer parts
\* and reciprocals of the remainders
RECURSIVE FracLeq(_, _, _, _)
FracLeq(a, b, c, d) ==
    IF a \div b # c \div d THEN a \div b < c \div d
    ELSE IF a % b = 0 THEN TRUE
    ELSE IF c % d = 0 THEN FALSE
    ELSE FracLeq(d, c % d, b, a % b)

NonDecreasing(s) == \A i \in 1..(Len(s) - 1) : s[i] <= s[i + 1]

\* C11: for every track generate_track produces, distances and
\* distances_normalized are as long as sorted_points, distances starts at 0
\* and never decreases, distances_normalized never decreases, lies in [0, 1],
\* starts at 0 and ends at exactly 1; the track table holds the same columns.
C11_ArcLengthInvariants ==
    tpc = "generated" =>
        /\ Len(distances) = Len(sorted_points)
        /\ Len(distances_normalized) = Len(sorted_points)
        /\ distances[1] = 0
        /\ NonDecreasing(distances)
        /\ \A i \in 1..Len(distances_normalized) :
              /\ distances_normalized[i][2] > 0
              /\ 0 <= distances_normalized[i][1]
              /\ distances_normalized[i][1] <= distances_normalized[i][2]
        /\ \A i \in 1..(Len(distances_normalized) - 1) :
              FracLeq(distances_normalized[i][1], distances_normalized[i][2],
                      distances_normalized[i + 1][1], distances_normalized[i + 1][2])
        /\ distances_normalized[1][1] = 0
        /\ distances_normalized[Len(distances_normalized)] = <<1, 1>>
        /\ track.Distance = distances
        /\ track.Normalized = distances_normalized

\* a track of four points with a long segment followed by a short one
C11_Witness ==
    /\ tpc = "generated"
    /\ Len(sorted_points) = 4
    /\ \E i \in 2..3 : distances[i] - distances[i - 1] > distances[i + 1] - distances[i]

\* the Euclidean length of the segment p-q in tenths, rounded down
EuclideanTenths(p, q) ==
    ISqrtBetween(100 * ((q.x - p.x) * (q.x - p.x) + (q.y - p.y) * (q.y - p.y)), 0, 46340)

\* C12 (as claimed): once _integrate_distance has filled distances, every
\* step distances[i] - distances[i-1] is the Euclidean length
\* sqrt(dx^2 + dy^2) of the segment between sorted points i-1 and i (compared
\* in tenths).
C12_SegmentsAreEuclidean ==
    (tpc \in {"generated", "ZeroDivisionError"}) =>
        \A i \in 2..Len(distances) :
            (distances[i] - distances[i - 1]) \div (Scale \div 10)
                = EuclideanTenths(sorted_points[i - 1], sorted_points[i])

\* what the code computes: the square root of the L1 value of the segment
SegmentsAreRootOfL1 ==
    (tpc \in {"generated", "ZeroDivisionError"}) =>
        \A i \in 2..Len(distances) :
            distances[i] - distances[i - 1]
                = sqrt(Abs(sorted_points[i].x - sorted_points[i - 1].x)
                       + Abs(sorted_points[i].y - sorted_points[i - 1].y))

-----------------------------------------------------------------------------
(* Properties of degenerate input *)

\* two points or more, every two of them farther apart than the outlier limit
AllMutuallyFar(pts) ==
    /\ Len(pts) >= 2
    /\ \A i, j \in 1..Len(pts) : i # j => get_sqr_dist(pts[i], pts[j]) > OutlierLimit

\* C13 (as claimed): when all input points are mutually farther apart than
\* the outlier limit, generate_track raises nothing and ends with one sorted
\* point and the other points excluded.
C13_MutuallyFarPointsGiveSinglePointLoop ==
    AllMutuallyFar(input_points) =>
        /\ tpc \notin {"IndexError", "ZeroDivisionError"}
        /\ tpc = "generated" =>
              /\ Len(sorted_points) = 1
              /\ Len(excluded_points) = Len(input_points) - 1

\* what the code does with such input: it always ends in an exception
MutuallyFarPointsRaise ==
    AllMutuallyFar(input_points) => tpc # "generated"

-----------------------------------------------------------------------------
(* Properties of the metric *)

\* |a.x - b.x| + |a.y - b.y|
L1(a, b) ==
    (IF a.x >= b.x THEN a.x - b.x ELSE b.x - a.x)
    + (IF a.y >= b.y THEN a.y - b.y ELSE b.y - a.y)

PointsHeld ==
    Range(unsorted_points) \cup Range(sorted_points) \cup Range(excluded_points)
    \cup (IF next_point = NoPoint THEN {} ELSE {next_point})

\* get_sqr_dist on the points of the map: the L1 value, symmetric, zero
\* exactly for equal coordinates; the points themselves are never altered
MetricIsL1 ==
    /\ \A a, b \in Range(input_points) :
          /\ get_sqr_dist(a, b) = L1(a, b)
          /\ get_sqr_dist(a, b) = get_sqr_dist(b, a)
          /\ (get_sqr_dist(a, b) = 0) <=> (a.x = b.x /\ a.y = b.y)
    /\ PointsHeld \subseteq Range(input_points)

\* one pass of the sorting loop picks a point of least L1 value from
\* _next_point and excludes _next_point exactly when that value is over the
\* limit; the final append is decided by the same value and limit
SequencingUsesL1 ==
    /\ (tpc = "sorting" /\ next_point' # next_point) =>
          /\ next_point' \in Range(unsorted_points)
          /\ \A q \in Range(unsorted_points) : L1(next_point, next_point') <= L1(next_point, q)
          /\ (excluded_points' = Append(excluded_points, next_point))
                <=> (L1(next_point, next_point') > OutlierLimit)
          /\ (sorted_points' = Append(sorted_points, next_point))
                <=> (L1(next_point, next_point') <= OutlierLimit)
    /\ (tpc = "sorting" /\ tpc' = "sorted" /\ variant = "experimental") =>
          IF L1(next_point, sorted_points[Len(sorted_points)]) <= OutlierLimit
          THEN sorted_points' = Append(sorted_points, next_point)
          ELSE sorted_points' = sorted_points

-----------------------------------------------------------------------------
(* Properties of the point extraction *)

\* the samples of the position tables: <<driver, row>>
SamplesOf(pos_frame) ==
    {di \in (DOMAIN pos_frame) \X (1..MaxRows) : di[2] <= Len(pos_frame[di[1]])}

\* a sample comes before another in the concatenation of the tables
ComesBefore(a, b) == a[1] < b[1] \/ (a[1] = b[1] /\ a[2] < b[2])

\* the samples flagged on-track that have the coordinates of p
OnTrackSamplesAt(pos_frame, p) ==
    {di \in SamplesOf(pos_frame) :
        /\ pos_frame[di[1]][di[2]].Status = "OnTrack"
        /\ pos_frame[di[1]][di[2]].X = p.x
        /\ pos_frame[di[1]][di[2]].Y = p.y}

\* the first on-track sample that has the coordinates of p
FirstOnTrackSampleAt(pos_frame, p) ==
    CHOOSE a \in OnTrackSamplesAt(pos_frame, p) :
        \A b \in OnTrackSamplesAt(pos_frame, p) : a = b \/ ComesBefore(a, b)

\* C19: the unsorted points built from the position tables of at least one
\* driver are exactly the distinct (x, y) pairs of the samples flagged
\* on-track, each once, in the order of their first occurrence in the
\* concatenation of the tables; a coordinate that only samples not flagged
\* on-track have gives no point.
C19_PointExtraction ==
    tpc = "constructed" =>
        /\ NoDuplicates(unsorted_points)
        /\ \A p \in MapPoints :
              p \in Range(unsorted_points) <=> OnTrackSamplesAt(raw_pos_data, p) # {}
        /\ Range(unsorted_points) \subseteq MapPoints
        /\ \A i, j \in 1..Len(unsorted_points) :
              i < j => ComesBefore(FirstOnTrackSampleAt(raw_pos_data, unsorted_points[i]),
                                   FirstOnTrackSampleAt(raw_pos_data, unsorted_points[j]))

\* two drivers: a coordinate is on-track twice, another only off-track, and
\* the second driver brings a point the first does not have
C19_Witness ==
    /\ tpc = "constructed"
    /\ Len(raw_pos_data) = 2
    /\ raw_pos_data[1] = <<PosRow(10, 1, 0, "OnTrack"), PosRow(20, 0, 1, "OffTrack")>>
    /\ raw_pos_data[2] = <<PosRow(10, 1, 0, "OnTrack"), PosRow(20, 0, 0, "OnTrack")>>
    /\ unsorted_points = <<TrackPoint(1, 0), TrackPoint(0, 0)>>

-----------------------------------------------------------------------------
(* Properties of the queries *)

\* get_points_between was called with two distinct track points and
\* include_ref=False, and returned
BetweenDistinctTrackPoints ==
    /\ qpc = "get_points_between"
    /\ qargs.point1 \in Range(sorted_points)
    /\ qargs.point2 \in Range(sorted_points)
    /\ qargs.point1 # qargs.point2
    /\ ~qargs.include_ref
    /\ qret.kind = "ok"

\* the number of points of the arc that complements the returned one: every
\* track point but the two reference points is on one of the two arcs
ComplementaryArcLen == Len(sorted_points) - 2 - Len(qret.points)

\* C17: for distinct track points p1 and p2 and include_ref=False,
\* get_points_between with short=True returns the arc of the closed loop
\* that has no more points than the complementary arc (the wrap-around from
\* the last sorted point to the first counted), and with short=False the
\* arc that has no fewer.
C17_ShortIsShorterArc ==
    BetweenDistinctTrackPoints =>
        /\ qargs.short => Len(qret.points) <= ComplementaryArcLen
        /\ ~qargs.short => Len(qret.points) >= ComplementaryArcLen

\* what the code returns: short=True gives the points between the two indices
\* inside the list, however many they are
ShortIsTheListSlice ==
    (BetweenDistinctTrackPoints /\ qargs.short) =>
        LET i1 == IndexOf(sorted_points, qargs.point1)
            i2 == IndexOf(sorted_points, qargs.point2)
        IN  Len(qret.points) = Abs(i1 - i2) - 1

\* a query, or the evaluation of a task by for_driver, has just been made
QueryStep == qpc = "idle" /\ qpc' # "idle"

\* C20: after generate_track no query (get_closest_point, get_points_between,
\* get_second_coord, get_time_from_pos, interpolate_pos_from_time) and no
\* evaluation of a task by for_driver changes sorted_points, distances,
\* distances_normalized, the position tables or the lap table.
C20_QueriesAreReadOnly ==
    [][QueryStep =>
          /\ tpc = "generated"
          /\ UNCHANGED <<sorted_points, distances, distances_normalized>>
          /\ UNCHANGED <<raw_pos_data, tables>>]_vars

\* get_time_from_pos, whose source holds an assignment to the X column, was
\* called on a generated track with position rows and raised
C20_Witness ==
    /\ qpc = "get_time_from_pos"
    /\ qret = Raised("AttributeError")
    /\ raw_pos_data[qargs.drv] # <<>>
    /\ \E i \in 1..Len(raw_pos_data[qargs.drv]) : raw_pos_data[qargs.drv][i].X # qargs.x
    /\ Len(sorted_points) >= 2
    /\ distances_normalized # <<>>

-----------------------------------------------------------------------------
(* Properties of the lap filter *)

\* the lap numbers of the usable laps of a lap table: the lap number is
\* defined, the lap is not lap 1 and not the lap with the highest lap number,
\* and it has neither a pit-in nor a pit-out time
UsableLaps(laps) ==
    {laps[i].NumberOfLaps : i \in
        {k \in 1..Len(laps) :
            /\ laps[k].NumberOfLaps # Null
            /\ laps[k].NumberOfLaps # 1
            /\ \E j \in 1..Len(laps) : laps[j].NumberOfLaps > laps[k].NumberOfLaps
            /\ laps[k].PitInTime = Null
            /\ laps[k].PitOutTime = Null}}

\* the lap of the table that has the number n
LapNumbered(laps, n) == laps[CHOOSE i \in 1..Len(laps) : laps[i].NumberOfLaps = n]

\* the samples less than 10 seconds from the end of the lap, on one side of
\* the candidate point
SamplesOnSide(pos, lap, pnt, before) ==
    {i \in 1..Len(pos) : /\ Abs(pos[i].Date - lap.Time) < 10
                         /\ (pos[i].X < pnt.x) = before}

\* the usable laps that have samples on both sides of the candidate point
LapsWithBothSides(table, pnt) ==
    {n \in UsableLaps(table.laps) :
        /\ SamplesOnSide(table.pos, LapNumbered(table.laps, n), pnt, TRUE) # {}
        /\ SamplesOnSide(table.pos, LapNumbered(table.laps, n), pnt, FALSE) # {}}

\* the laps the elements of a result list come from
LapsOf(list) == {list[i].lap : i \in 1..Len(list)}

\* C14: _get_start_line_range collects an end point for exactly the usable
\* laps of the driver; for_driver gives results for usable laps only, and
\* for every usable lap when each has samples on both sides of the candidate
\* point; neither raises for a lap that is not usable.
C14_UsableLapsSelected ==
    /\ qpc = "_get_start_line_range" =>
          /\ qret.kind = "ok"
          /\ LapsOf(qret.collected_x) = UsableLaps(tables[1].laps)
    /\ qpc = "for_driver" =>
          /\ qret.kind = "ok"
          /\ LapsOf(qret.x) \subseteq UsableLaps(tables[qargs.drv].laps)
          /\ LapsWithBothSides(tables[qargs.drv], qargs.test_point)
                 = UsableLaps(tables[qargs.drv].laps)
             => LapsOf(qret.x) = UsableLaps(tables[qargs.drv].laps)

\* a first lap, a usable lap, an out-lap and a last lap: only lap 2 is
\* collected
C14_Witness ==
    /\ qpc = "_get_start_line_range"
    /\ tables[1].laps = <<LapOfKind(1, "plain"), LapOfKind(2, "plain"),
                          LapOfKind(3, "out"), LapOfKind(4, "plain")>>
    /\ LapsOf(qret.collected_x) = {2}

\* the same table evaluated by for_driver with samples on both sides
ForDriverSelectsLapTwo ==
    /\ qpc = "for_driver"
    /\ tables[1].laps = <<LapOfKind(1, "plain"), LapOfKind(2, "plain"),
                          LapOfKind(3, "out"), LapOfKind(4, "plain")>>
    /\ LapsOf(qret.x) = {2}

\* C15: for a usable lap with no sample before the candidate point, or none
\* at or after it, in the window around the end of the lap, for_driver
\* appends nothing to either list, raises nothing, and still gives a result
\* for every usable lap that has samples on both sides.
C15_EmptyPartitionSkipped ==
    qpc = "for_driver" =>
        \A n \in UsableLaps(tables[qargs.drv].laps) \ LapsWithBothSides(tables[qargs.drv], qargs.test_point) :
            /\ qret.kind = "ok"
            /\ n \notin LapsOf(qret.x)
            /\ n \notin LapsOf(qret.y)
            /\ LapsWithBothSides(tables[qargs.drv], qargs.test_point) \subseteq LapsOf(qret.x)

\* lap 2 has no sample before the candidate line and is skipped; lap 3, which
\* comes after it, has samples on both sides and gives a result
C15_Witness ==
    /\ qpc = "for_driver"
    /\ qargs.test_point = TrackPoint(0, 0)
    /\ UsableLaps(tables[1].laps) = {2, 3}
    /\ SamplesOnSide(tables[1].pos, tables[1].laps[2], qargs.test_point, TRUE) = {}
    /\ SamplesOnSide(tables[1].pos, tables[1].laps[2], qargs.test_point, FALSE) # {}
    /\ qret.kind = "ok"
    /\ LapsOf(qret.x) = {3}
    /\ LapsOf(qret.y) = {3}

-----------------------------------------------------------------------------
(* Properties of the interpolation of positions *)

\* the table has at least 2 samples and no two samples share a timestamp
DistinctTimestamps(pos) ==
    /\ Len(pos) >= 2
    /\ \A i, j \in 1..Len(pos) : pos[i].Date = pos[j].Date => i = j

\* the result of a query at the timestamp of a sample is the sample, and a
\* second call with the same inputs returns what the first returned
ExactAtSamples ==
    (qpc = "interpolate_pos_from_time" /\ DistinctTimestamps(raw_pos_data[qargs.drv])) =>
        LET pos == raw_pos_data[qargs.drv]
        IN  /\ \A i \in 1..Len(pos) :
                  pos[i].Date = qargs.query_date =>
                      qret[1] = Returned(pos[i].X * Scale, pos[i].Y * Scale)
            /\ Len(qret) = 2 => qret[2] = qret[1]

\* a call of interpolate_pos_from_time
InterpolateStep == qpc' = "interpolate_pos_from_time" /\ qret' # qret

\* C16: for a driver with at least 2 samples with distinct timestamps,
\* interpolate_pos_from_time at the timestamp of a sample returns exactly the
\* (x, y) of that sample; two calls with the same inputs return the same
\* point; no call changes the position data.
C16_ExactAtSamplesAndDeterministic ==
    /\ []ExactAtSamples
    /\ [][InterpolateStep => UNCHANGED <<raw_pos_data, tables>>]_vars

\* two calls at the timestamp of the second of eight samples
C16_Witness ==
    /\ qpc = "interpolate_pos_from_time"
    /\ raw_pos_data[1] = DensePositions
    /\ qargs.query_date = DensePositions[2].Date
    /\ Len(qret) = 2
    /\ qret[1] = Returned(DensePositions[2].X * Scale, DensePositions[2].Y * Scale)

-----------------------------------------------------------------------------
(* Properties of the barrier between sweep steps *)

\* wait_for_idle has just received the N-th report of a sweep step
BarrierReached == cpc = "process_results"

\* C21: whenever wait_for_idle has just received its N-th report of a sweep
\* step, the task queue and the resume queue are empty, no worker evaluates
\* a task, the buffer of every worker is empty, and all N workers are
\* blocked in resume_queue.get().
C21_BarrierState ==
    BarrierReached =>
        /\ tasks = <<>>
        /\ resume = <<>>
        /\ idling = <<>>
        /\ idle_count = number_of_processes
        /\ \A w \in Workers : /\ wpc[w] = "wait_resume"
                              /\ wresults[w] = EmptyDict

\* the barrier of the second sweep step, reached with task outputs merged
\* and with both reports of the step pushed by one worker, the other still
\* blocked since the first step
C21_Witness ==
    /\ BarrierReached
    /\ number_of_processes = 2
    /\ cnt = 2
    /\ HasKey(merged, 0)
    /\ merged[0].x # <<>>
    /\ \E w \in Workers : reported[w][2] = 2

-----------------------------------------------------------------------------
(* Properties of the resume signals *)

\* the number of 'resume' signals in the resume queue
ResumeSignals(queue) == Cardinality({i \in 1..Len(queue) : queue[i].kind = "resume"})

\* the coordinator puts a 'resume' signal
PutsResume == ResumeSignals(resume') > ResumeSignals(resume)

\* a 'resume' signal is put only inside resume_all, as the (n_put + 1)-th of
\* the step, after N reports were drained and the statistics of the step
\* were recorded; resume_all puts one signal at every pass and is left with
\* the N-th
ResumeAfterStatistics ==
    /\ PutsResume =>
          /\ cpc = "resume_all"
          /\ ResumeSignals(resume') = ResumeSignals(resume) + 1
          /\ idle_count = number_of_processes
          /\ idling = <<>>
          /\ Len(results.tx) = cnt
          /\ results.tx[cnt] = test_point.x
          /\ n_put < number_of_processes
    /\ (cpc = "resume_all" /\ <<cpc, n_put>>' # <<cpc, n_put>>) =>
          /\ PutsResume
          /\ cpc' = "resume_all" => n_put' = n_put + 1
          /\ cpc' # "resume_all" => (n_put + 1 = number_of_processes /\ cpc' = "for_test_x")
    /\ (cpc # "resume_all" /\ cpc' = "resume_all") => n_put' = 0

\* a worker that pushes a report is blocked from then on, it stays blocked
\* until it takes a signal from the resume queue, and whoever takes an item
\* from the task queue is not blocked
BlockedUntilSignal ==
    /\ \A w \in Workers :
          reported'[w] # reported[w] =>
              (Len(idling') = Len(idling) + 1 /\ wpc'[w] = "wait_resume")
    /\ \A w \in Workers :
          (wpc[w] = "wait_resume" /\ wpc'[w] # "wait_resume") =>
              (resume # <<>> /\ resume' = Tail(resume) /\ tasks' = tasks)
    /\ Len(tasks') < Len(tasks) =>
          \E w \in Workers :
              /\ wpc[w] = "get_task"
              /\ task'[w] = Head(tasks)
              /\ \A v \in Workers \ {w} : wpc'[v] = wpc[v] /\ task'[v] = task[v]

\* C24: in each sweep step the coordinator puts exactly N 'resume' signals,
\* and only after it has drained N reports and recorded the statistics of
\* the step; a worker that has pushed a report takes nothing from the task
\* queue until it has taken a signal from the resume queue.
C24_ResumeOrdering == [][ResumeAfterStatistics /\ BlockedUntilSignal]_vars

\* the first sweep step is over: its N signals are in the resume queue and
\* every worker is still blocked
C24_Witness ==
    /\ cpc = "for_test_x"
    /\ cnt = 1
    /\ number_of_processes = MaxWorkers
    /\ ResumeSignals(resume) = number_of_processes
    /\ \A w \in Workers : wpc[w] = "wait_resume"
    /\ tasks = <<>>

-----------------------------------------------------------------------------
(* Properties of the final idle round *)

\* the sweep is over: solve is in or past its final queue_idle_command
FinalRound == cpc \in {"final_idle", "exit_all", "join_all", "done"}

\* in the final round every report in the idle queue is an empty buffer and
\* no worker holds a task output
FinalReportsEmpty ==
    FinalRound =>
        /\ \A i \in 1..Len(idling) : idling[i] = EmptyDict
        /\ \A w \in Workers : wresults[w] = EmptyDict
        /\ \A w \in Workers : wpc[w] # "process_task"
        /\ \A i \in 1..Len(tasks) : tasks[i].kind = "idle"

\* when solve has returned the N reports of the final round are still in the
\* idle queue
FinalReportsLeft ==
    cpc = "done" =>
        /\ Len(idling) = number_of_processes
        /\ SeqSum([w \in Workers |-> reported[w][NumberOfSteps + 1]]) = number_of_processes

\* C25: the reports pushed in the final idle round are never drained by the
\* coordinator and each is an empty buffer; when solve returns no task
\* output is left in a worker or in the idle queue.
C25_FinalRoundCarriesNoData ==
    /\ [](FinalReportsEmpty /\ FinalReportsLeft)
    /\ [][FinalRound => (FinalRound' /\ Len(idling') >= Len(idling))]_vars

\* solve has returned after a sweep whose first step merged task outputs
C25_Witness ==
    /\ cpc = "done"
    /\ number_of_processes = MaxWorkers
    /\ Len(results.tx) = NumberOfSteps
    /\ NumberOfSteps >= 2
    /\ results.mean_x[1] # NaN
    /\ Len(idling) = number_of_processes

-----------------------------------------------------------------------------
(* Properties of the end of solve *)

\* solve has stopped: it returned, or res[0] raised KeyError
SolveStopped == cpc \in {"done", "KeyError"}

\* C26: on every path by which solve stops, also when the merged reports of
\* a step have no entry for condition index 0, every worker it started was
\* sent 'exit' and has terminated, and none is blocked in
\* resume_queue.get().
C26_NoWorkerOrphaned ==
    SolveStopped => \A w \in Workers : wpc[w] = "exited"

\* what the code does when res[0] raises: every worker is blocked in
\* resume_queue.get() and the resume queue is empty, for good
OrphanedAtKeyError ==
    cpc = "KeyError" =>
        /\ resume = <<>>
        /\ \A w \in Workers : wpc[w] = "wait_resume"

\* solve stops with KeyError exactly in the first step, when no condition is
\* registered or there is no driver
KeyErrorWithoutTasks ==
    cpc = "KeyError" => (cnt = 1 /\ (conditions = 0 \/ drivers = <<>>))

-----------------------------------------------------------------------------
(* Properties of the statistics of a sweep step *)

\* the sweep steps completed so far: those whose statistics were recorded
CompletedSteps ==
    IF cpc \in {"put_tasks", "queue_idle", "wait_for_idle", "process_results", "KeyError"}
    THEN cnt - 1
    ELSE cnt

\* the sum of the values of a set of tagged outputs
RECURSIVE SumOfValues(_)
SumOfValues(S) ==
    IF S = {} THEN 0
    ELSE LET e == CHOOSE e \in S : TRUE IN e.v + SumOfValues(S \ {e})

\* the mean of the values of a set of tagged outputs, not a number when the
\* set is empty
MeanOfOutputs(S) == IF S = {} THEN NaN ELSE SumOfValues(S) \div Cardinality(S)

\* their mean absolute deviation from the mean
MadOfOutputs(S) ==
    IF S = {} THEN NaN
    ELSE SumOfValues({[v |-> Abs(e.v - MeanOfOutputs(S)), src |-> e.src] : e \in S})
             \div Cardinality(S)

-----------------------------------------------------------------------------
(* Properties of the parallel result lists *)

\* the x list and the y list of every condition of a result dict have the
\* same length, and their elements at the same index come from the same lap
\* of the same driver in the same task
Aligned(dict) ==
    \A key \in DOMAIN dict :
        /\ Len(dict[key].x) = Len(dict[key].y)
        /\ \A j \in 1..Len(dict[key].x) : dict[key].x[j].src = dict[key].y[j].src

\* how many elements of a list come from the given source
CountFrom(list, src) == Cardinality({j \in 1..Len(list) : list[j].src = src})

\* the lap numbers of a lap table
LapNumbers(laps) == {laps[i].NumberOfLaps : i \in 1..Len(laps)} \ {Null}

\* the merged lists of a step hold one element for every usable lap of every
\* driver that has samples on both sides of the candidate point, and none
\* for any other lap
OnePerLapWithBothSides ==
    cpc = "process_results" =>
        \A c \in 0..(conditions - 1) : \A d \in 1..Len(drivers) :
            \A n \in LapNumbers(tables[drivers[d]].laps) :
                /\ HasKey(merged, c)
                /\ CountFrom(merged[c].x, <<cnt, c, drivers[d], n>>)
                     = IF n \in LapsWithBothSides(tables[drivers[d]], test_point) THEN 1 ELSE 0
                /\ CountFrom(merged[c].y, <<cnt, c, drivers[d], n>>)
                     = CountFrom(merged[c].x, <<cnt, c, drivers[d], n>>)

\* C28: for_driver returns two lists of equal length with one element for
\* every usable lap that had both partitions non-empty and none for any
\* other lap; in the buffer of a worker after add_result, in every report
\* and in the merged reports of wait_for_idle the x list and the y list of
\* each condition have equal length, and element j of both comes from the
\* same lap of the same driver.
C28_ParallelListsAligned ==
    /\ \A w \in Workers : Aligned(wresults[w])
    /\ \A i \in 1..Len(idling) : Aligned(idling[i])
    /\ Aligned(merged)
    /\ OnePerLapWithBothSides

\* two workers have reported the outputs of two drivers for two conditions,
\* and the reports are merged
C28_Witness ==
    /\ cpc = "process_results"
    /\ number_of_processes = 2
    /\ conditions = 2
    /\ Len(drivers) = 2
    /\ Len(merged[0].x) = 2
    /\ Len(merged[1].y) = 2
    /\ merged[0].x[1].src[3] # merged[0].x[2].src[3]

\* for_driver alone, over every lap table: one element in each list for
\* every usable lap with samples on both sides, and none for any other lap
ForDriverOnePerLap ==
    qpc = "for_driver" =>
        /\ qret.kind = "ok"
        /\ Len(qret.x) = Len(qret.y)
        /\ \A j \in 1..Len(qret.x) : qret.x[j].lap = qret.y[j].lap
        /\ \A n \in LapNumbers(tables[qargs.drv].laps) :
              Cardinality({j \in 1..Len(qret.x) : qret.x[j].lap = n})
                 = IF n \in LapsWithBothSides(tables[qargs.drv], qargs.test_point) THEN 1 ELSE 0

-----------------------------------------------------------------------------
(* Properties of the crossing time *)

\* the two samples and the crossing time for_driver computes for lap n of the
\* driver of the call
CrossingOfLap(n) ==
    Crossing(LapNumbered(tables[qargs.drv].laps, n), tables[qargs.drv].pos,
             qargs.test_point, 0)

\* p_a is before the candidate point, p_b is not, the denominator is
\* positive, and test_date is not outside the two timestamps
Bracketed(c, pnt) ==
    /\ c.p_a.X < pnt.x
    /\ c.p_b.X >= pnt.x
    /\ c.p_b.X - c.p_a.X > 0
    /\ \/ c.p_a.Date <= c.test_date /\ c.test_date <= c.p_b.Date
       \/ c.p_b.Date <= c.test_date /\ c.test_date <= c.p_a.Date

\* C29: for every lap for_driver gives a result for, the denominator
\* p_b.x - p_a.x of the interpolation is strictly positive and the crossing
\* time lies between the timestamps of p_a and p_b, inclusive.
C29_CrossingBracketed ==
    qpc = "for_driver" =>
        \A n \in LapsOf(qret.x) : Bracketed(CrossingOfLap(n), qargs.test_point)

\* a lap whose sample after the line lies on the candidate point: the
\* crossing time is the timestamp of that sample
C29_Witness ==
    /\ qpc = "for_driver"
    /\ qret.kind = "ok"
    /\ \E n \in LapsOf(qret.x) :
          /\ CrossingOfLap(n).p_b.X = qargs.test_point.x
          /\ CrossingOfLap(n).test_date = CrossingOfLap(n).p_b.Date
          /\ CrossingOfLap(n).p_a.Date # CrossingOfLap(n).p_b.Date
    /\ \E n \in LapsOf(qret.x) : n \in UsableLaps(tables[qargs.drv].laps)

-----------------------------------------------------------------------------
(* Properties of the arcs between two track points *)

\* get_points_between was called with two distinct track points and returned
BetweenTwoTrackPoints ==
    /\ qpc = "get_points_between"
    /\ qargs.point1 \in Range(sorted_points)
    /\ qargs.point2 \in Range(sorted_points)
    /\ qargs.point1 # qargs.point2
    /\ qret.kind = "ok"

\* the index of the point that follows index i on the closed loop
CyclicSuccessor(i) == (i % Len(sorted_points)) + 1

\* every element of the list follows the one before it on the closed loop
InTraversalOrder(points) ==
    \A k \in 1..(Len(points) - 1) :
        IndexOf(sorted_points, points[k + 1])
            = CyclicSuccessor(IndexOf(sorted_points, points[k]))

\* the result of the same call with the other value of short
OtherArc ==
    get_points_between(sorted_points, qargs.point1, qargs.point2,
                       ~qargs.short, qargs.include_ref).points

\* C30: for distinct track points p1 and p2, with include_ref=True the
\* result of get_points_between starts with one reference point, ends with
\* the other, and every element is the cyclic successor in sorted_points of
\* the element before it, the first element being the reference point with
\* the lower index when short=True; with include_ref=False the results for
\* short=True and short=False are disjoint and together hold every track
\* point other than p1 and p2 exactly once.
C30_ArcStructure ==
    BetweenTwoTrackPoints =>
        LET points == qret.points
            refs == {qargs.point1, qargs.point2}
            i1 == IndexOf(sorted_points, qargs.point1)
            i2 == IndexOf(sorted_points, qargs.point2)
        IN  /\ qargs.include_ref =>
                  /\ Len(points) >= 2
                  /\ {points[1], points[Len(points)]} = refs
                  /\ InTraversalOrder(points)
                  /\ qargs.short =>
                        points[1] = (IF i1 < i2 THEN qargs.point1 ELSE qargs.point2)
            /\ ~qargs.include_ref =>
                  /\ Range(points) \cap Range(OtherArc) = {}
                  /\ Range(points) \cup Range(OtherArc) = Range(sorted_points) \ refs
                  /\ Len(points) + Len(OtherArc) = Len(sorted_points) - 2

\* the long way round between the second and the third of four track points,
\* reference points included: the list wraps around the end of sorted_points
C30_Witness ==
    /\ BetweenTwoTrackPoints
    /\ qargs.include_ref
    /\ ~qargs.short
    /\ Len(sorted_points) >= 4
    /\ Len(qret.points) = 4
    /\ IndexOf(sorted_points, qret.points[2]) = Len(sorted_points)
    /\ IndexOf(sorted_points, qret.points[3]) = 1

-----------------------------------------------------------------------------
(* Properties of the greedy sorting loop *)

\* the first position of the remaining list whose point is nearest to the
\* current point
FirstNearest ==
    CHOOSE k \in 1..Len(unsorted_points) :
        /\ \A j \in 1..Len(unsorted_points) :
              L1(next_point, unsorted_points[k]) <= L1(next_point, unsorted_points[j])
        /\ \A j \in 1..(k - 1) :
              L1(next_point, unsorted_points[j]) > L1(next_point, unsorted_points[k])

\* an iteration of the loop of _sort_points
LoopIteration == tpc = "sorting" /\ unsorted_points # <<>> /\ next_point' # next_point

\* the step after the loop of experimental.py, with a sorted point to compare to
FinalStep ==
    /\ tpc = "sorting"
    /\ unsorted_points = <<>>
    /\ tpc' = "sorted"
    /\ variant = "experimental"

\* the iteration removes the first nearest remaining point and makes it the
\* current point; the old current point goes to sorted_points when the
\* distance is within the limit and to excluded_points otherwise
GreedyIteration ==
    LoopIteration =>
        /\ next_point' = unsorted_points[FirstNearest]
        /\ unsorted_points' = SubSeq(unsorted_points, 1, FirstNearest - 1)
                                 \o SubSeq(unsorted_points, FirstNearest + 1,
                                           Len(unsorted_points))
        /\ next_point' \notin Range(unsorted_points')
        /\ next_point' \notin Range(excluded_points')
        /\ IF L1(next_point, next_point') <= OutlierLimit
           THEN /\ sorted_points' = Append(sorted_points, next_point)
                /\ excluded_points' = excluded_points
           ELSE /\ excluded_points' = Append(excluded_points, next_point)
                /\ sorted_points' = sorted_points

\* the final current point is appended exactly when it is within the limit
\* of the last sorted point
FinalAppend ==
    FinalStep =>
        /\ (sorted_points' = Append(sorted_points, next_point))
              <=> (L1(next_point, sorted_points[Len(sorted_points)]) <= OutlierLimit)
        /\ sorted_points' # Append(sorted_points, next_point)
              => sorted_points' = sorted_points

\* every iteration has put one point into sorted_points or excluded_points:
\* when the loop has ended, n - 1 iterations were made
IterationsCounted ==
    /\ tpc = "sorting" =>
          Len(sorted_points) + Len(excluded_points) + Len(unsorted_points)
              = Len(input_points) - 1
    /\ (tpc = "sorted" /\ variant = "testing") =>
          Len(sorted_points) + Len(excluded_points) = Len(input_points) - 1

\* C22: every iteration of the loop of _sort_points removes the remaining
\* point nearest to the current point c (the first one in list order on
\* ties) and makes it the current point; c is appended to sorted_points when
\* that distance is <= 200 and to excluded_points when it is > 200, and the
\* newly selected point is not discarded in that iteration; the loop makes
\* n - 1 iterations for n input points; after the loop, experimental.py
\* appends the current point iff it is within 200 of the last sorted point.
C22_GreedyStep ==
    /\ []IterationsCounted
    /\ [][GreedyIteration /\ FinalAppend]_vars

\* four points sorted by experimental.py: the first has two nearest
\* neighbours and the earlier one of the list was taken, a point was
\* excluded, and the last point was too far from the last sorted point to be
\* appended
C22_Witness ==
    /\ tpc = "sorted"
    /\ variant = "experimental"
    /\ Len(input_points) = 4
    /\ L1(input_points[1], input_points[2]) = L1(input_points[1], input_points[3])
    /\ L1(input_points[1], input_points[2]) < L1(input_points[1], input_points[4])
    /\ sorted_points[1] = input_points[1]
    /\ Len(sorted_points) >= 2
    /\ sorted_points[2] = input_points[2]
    /\ excluded_points # <<>>
    /\ Len(sorted_points) + Len(excluded_points) = 3
    /\ L1(next_point, sorted_points[Len(sorted_points)]) > OutlierLimit

-----------------------------------------------------------------------------
(* Properties of the gaps of the sorted sequence *)

\* C23: after _sort_points every two consecutive points of sorted_points are
\* within the outlier limit of each other (L1 distance <= 200), for every
\* input point set.
C23_NoGapSurvives ==
    SortReturned =>
        \A i \in 1..(Len(sorted_points) - 1) :
            L1(sorted_points[i], sorted_points[i + 1]) <= OutlierLimit

\* what the code ensures: a sorted point is within the limit of the point the
\* loop visited next, which need not be the next sorted point
WithinLimitOfNextVisited ==
    [][LoopIteration =>
          (sorted_points' = Append(sorted_points, next_point)
              => L1(next_point, next_point') <= OutlierLimit)]_vars

\* a point was excluded between two sorted points that are further apart
\* than the limit
GapAfterExcludedPoint ==
    /\ SortReturned
    /\ excluded_points # <<>>
    /\ \E i \in 1..(Len(sorted_points) - 1) :
          L1(sorted_points[i], sorted_points[i + 1]) > OutlierLimit

-----------------------------------------------------------------------------
(* Properties of the closest track point *)

\* the positions of sorted_points at the least L1 distance from the point p
NearestPositions(p) ==
    {i \in 1..Len(sorted_points) :
        \A j \in 1..Len(sorted_points) :
            L1(sorted_points[i], p) <= L1(sorted_points[j], p)}

\* C31: get_closest_point(p) returns a point of sorted_points whose distance
\* to p is minimal over all sorted points, and of several sorted points at
\* that distance the one that comes first in sorted_points.
C31_ClosestPointFirstOfNearest ==
    qpc = "get_closest_point" =>
        /\ qret.kind = "ok"
        /\ \E i \in NearestPositions(qargs.point) :
              /\ \A j \in NearestPositions(qargs.point) : i <= j
              /\ qret = Returned(sorted_points[i].x, sorted_points[i].y)

\* two track points are equally near to a point off the track, and the one
\* returned is the earlier one, which is not the first point of the track
C31_Witness ==
    /\ qpc = "get_closest_point"
    /\ qargs.point \notin Range(sorted_points)
    /\ Cardinality(NearestPositions(qargs.point)) >= 2
    /\ 1 \notin NearestPositions(qargs.point)
    /\ \E i \in NearestPositions(qargs.point) :
          qret = Returned(sorted_points[i].x, sorted_points[i].y)

-----------------------------------------------------------------------------
(* Properties of the gather of s3_to_start_finish_v1 *)

\* the chunks yielded so far and those still to come
AllChunks == processes \o chunks_left

\* the chunks are consecutive, cover the driver list exactly once, and all
\* but the last have the requested size
ChunksPartitionList ==
    /\ Concat(AllChunks) = tel_drivers
    /\ \A k \in 1..(Len(AllChunks) - 1) :
          Len(AllChunks[k]) = Len(tel_drivers) \div GatherProcesses + 1
    /\ \A k \in 1..Len(AllChunks) : AllChunks[k] # <<>>

\* every subprocess has ended, the queue is empty, and the coordinator is
\* still waiting in q.get()
GatherStuck ==
    /\ s3pc = "get"
    /\ ret_vals = <<>>
    /\ \A p \in Subprocesses : subpc[p] = "exited"

\* every subprocess that has ended has put one result: those read and those
\* still in the queue
OneResultPerSubprocess ==
    s3pc \in {"get", "join", "done"} =>
        Cardinality({p \in Subprocesses : subpc[p] = "exited"})
            = Len(ret_vals) + (IF s3pc = "get" THEN s3i ELSE GatherProcesses)

\* C32: for every non-empty driver list, chunks(drivers, floor(len/4)+1)
\* makes s3_to_start_finish_v1 start exactly 4 subprocesses, each of which
\* puts exactly one result, so that the 4 blocking reads of the result queue
\* all complete and the coordinator is never left waiting for a result no
\* subprocess will put; the chunks are consecutive, cover the list exactly
\* once, and all but the last have the requested size.
C32_GatherCount ==
    /\ ChunksPartitionList
    /\ s3pc # "spawn" => Len(processes) = GatherProcesses
    /\ OneResultPerSubprocess
    /\ ~GatherStuck

\* what the code ensures: never more than 4 subprocesses, one result each,
\* chunks that partition the list
AtMostFourSubprocesses ==
    /\ ChunksPartitionList
    /\ Len(AllChunks) <= GatherProcesses
    /\ s3pc \in {"get", "join", "done"} =>
          Cardinality({p \in Subprocesses : subpc[p] = "exited"}) >= Len(ret_vals)

\* the coordinator waits forever exactly when fewer than 4 chunks were made
StuckIffFewerChunks ==
    /\ GatherStuck => Len(processes) < GatherProcesses
    /\ s3pc \in {"join", "done"} => Len(processes) = GatherProcesses

\* a process can always take a step unless the function has come to its end
\* or the coordinator waits for a result that will not come
StopsOnlyDoneOrStuck ==
    s3pc = "done" \/ GatherStuck \/ ENABLED GatherNext

\* with 7 drivers there are 4 chunks and the function has come to its end
DoneWithSevenDrivers ==
    /\ Len(tel_drivers) = 7
    /\ s3pc = "done"
    /\ Len(result.xs) > 0

\* one driver: one subprocess, one result read, and the second read blocks
GatherStuckAfterOneResult ==
    /\ GatherStuck
    /\ Len(tel_drivers) = 1
    /\ s3i = 1

-----------------------------------------------------------------------------
(* Properties of the sampling of a lap *)

\* the four lists of a result have the same length
EqualLengths(v) ==
    /\ Len(v.xs) = Len(v.ys)
    /\ Len(v.xs) = Len(v.xe)
    /\ Len(v.xs) = Len(v.ye)

\* in every subprocess, in every result on the queue, and in the merged result
EqualLengthsEverywhere ==
    /\ \A p \in Subprocesses : EqualLengths(subvals[p])
    /\ \A k \in 1..Len(ret_vals) : EqualLengths(ret_vals[k])
    /\ result # <<>> => EqualLengths(result)

\* the end time subprocess p asks for next
RequestedEndTime(p) ==
    end_time(processes[p][subpos[p].d], subpos[p].i, subpos[p].dt)

\* that end time is in the upsampled index of the lap
EndTimePresent(p) ==
    InIndex(filtered_pos(processes[p][subpos[p].d], subpos[p].i), RequestedEndTime(p))

\* one list has grown by one element and kept what it held
GrownByOne(old, new) == Len(new) = Len(old) + 1 /\ SubSeq(new, 1, Len(old)) = old

\* the step of subprocess p for one offset: with the end time missing,
\* nothing is appended, the subprocess is still running, and it is at the
\* first offset of a later lap or at the end of its loops; with the end time
\* present every list grows by one element
SamplingStep(p) ==
    (p \in Subprocesses /\ subpos'[p] # subpos[p]) =>
        /\ subpc'[p] = "running"
        /\ IF EndTimePresent(p)
           THEN \A key \in {"xs", "ys", "xe", "ye"} :
                    GrownByOne(subvals[p][key], subvals'[p][key])
           ELSE /\ subvals'[p] = subvals[p]
                /\ subpos'[p].dt = 0
                /\ \/ subpos'[p].d > subpos[p].d
                   \/ subpos'[p].d = subpos[p].d /\ subpos'[p].i = subpos[p].i + 1

\* C33: when the requested end time is not in the upsampled position index,
\* sampling of that lap stops without raising, nothing is appended for the
\* failing offset, the points already collected are kept, and processing
\* continues with the next lap; the four lists xs, ys, xe, ye have equal
\* length in every subprocess result and in the merged result.
C33_RangeExhaustion ==
    /\ []EqualLengthsEverywhere
    /\ [][\A p \in 1..GatherProcesses : SamplingStep(p)]_vars

\* the subprocess of drivers 1 and 2 has ended: lap 1 of driver 1 gave one
\* point before its end time was missing, lap 2 gave a point for every
\* offset, driver 2 gave none; the results of all four subprocesses are merged
C33_Witness ==
    /\ s3pc = "done"
    /\ \E p \in Subprocesses :
          /\ processes[p] = <<1, 2>>
          /\ subpc[p] = "exited"
          /\ Len(subvals[p].xe) = 1 + MaxOffsets
          /\ Len(result.xe) > Len(subvals[p].xe)
    /\ EqualLengths(result)

-----------------------------------------------------------------------------
(* Properties of the range of the interpolation *)

\* v is not outside a and b
Between(v, a, b) == (a <= v /\ v <= b) \/ (b <= v /\ v <= a)

\* query_date is within the time span of the samples
WithinSampledSpan(drv_pos, query_date) ==
    /\ Len(drv_pos) >= 2
    /\ \E i \in 1..Len(drv_pos) : drv_pos[i].Date <= query_date
    /\ \E i \in 1..Len(drv_pos) : drv_pos[i].Date >= query_date

\* the two samples the call selected
SelectedSamples ==
    LET drv_pos == raw_pos_data[qargs.drv]
        order == ClosestOrder(drv_pos, qargs.query_date)
    IN  <<drv_pos[order[1]], drv_pos[order[2]]>>

\* the selected samples bracket the query time, and x and y of the result
\* are not outside the coordinates of the two samples
ResultBracketed ==
    /\ Between(qargs.query_date, SelectedSamples[1].Date, SelectedSamples[2].Date)
    /\ qret[1].kind = "ok"
    /\ Between(qret[1].x, SelectedSamples[1].X * Scale, SelectedSamples[2].X * Scale)
    /\ Between(qret[1].y, SelectedSamples[1].Y * Scale, SelectedSamples[2].Y * Scale)

\* an interpolate_pos_from_time call of the lap-filter runs has returned for
\* a time within the sampled span
InterpolatedWithinSpan ==
    /\ tpc = "unused"
    /\ qpc = "interpolate_pos_from_time"
    /\ WithinSampledSpan(raw_pos_data[qargs.drv], qargs.query_date)

\* C34: for every query time within the sampled time span of the driver,
\* the two samples interpolate_pos_from_time selects bracket the query time
\* and the returned x and y lie between the coordinates of those two
\* samples, inclusive.
C34_NeverExtrapolates == InterpolatedWithinSpan => ResultBracketed

\* what the code ensures: the result is bracketed when the samples are
\* evenly spaced
BracketedOnEvenSamples ==
    (InterpolatedWithinSpan /\ raw_pos_data[qargs.drv] = DensePositions) => ResultBracketed

\* a sample is missing and the two samples nearest to the query time are
\* both earlier than it, every later sample being further away: the result
\* lies beyond the later of the two
ExtrapolatedPastGap ==
    /\ InterpolatedWithinSpan
    /\ SelectedSamples[1].Date < qargs.query_date
    /\ SelectedSamples[2].Date < SelectedSamples[1].Date
    /\ \A i \in 1..Len(raw_pos_data[qargs.drv]) :
          raw_pos_data[qargs.drv][i].Date > qargs.query_date =>
              raw_pos_data[qargs.drv][i].Date - qargs.query_date
                  > qargs.query_date - SelectedSamples[2].Date
    /\ qret[1].x > SelectedSamples[1].X * Scale
    /\ qret[1].y > SelectedSamples[1].Y * Scale

====
